---- MODULE Spec2Model ----
(***************************************************************************)
(* Model of the midfield-bypass feature pipeline (yoosufcancode/dm-bypass): *)
(* the possession segmenter (src/src/possessions/build_possessions.py),     *)
(* the match feature aggregator (src/src/features/main_feature.py) and the  *)
(* feature extractor functions (src/src/features/*.py).                     *)
(*                                                                          *)
(* A pandas table is a sequence of rows (records); a missing value          *)
(* (None / NaN) is NULL; the set of columns a table has is kept beside the  *)
(* rows.  A feature value is a record that says whether the function       *)
(* raised, returned None, an int or a float (a fraction n/d), so that 0,    *)
(* 0.0 and None stay distinct.                                              *)
(***************************************************************************)
EXTENDS Integers, Sequences, FiniteSets, TLC

VARIABLES
    pc,                 \* position of the running call
    events,             \* the event table handed to the call (its rows)
    columns,            \* the columns of that table
    result,             \* what the call returned
    config,             \* compute_all_features: what the file system holds
    match_idx,          \* compute_all_features: files handled so far
    module_idx,         \* compute_features_for_match: modules handled so far
    match_features,     \* compute_features_for_match: accumulated mapping (its keys)
    all_match_features, \* compute_all_features: rows appended so far
    invoked,            \* history: modules whose compute function was called
    raised,             \* history: modules whose compute function raised
    other_features,     \* history: mapping the composite module received
    processed,          \* history: match files the loop has visited
    skipped             \* history: match files whose processing raised

vars == <<pc, events, columns, result, config, match_idx, module_idx,
          match_features, all_match_features, invoked, raised, other_features,
          processed, skipped>>

\* a missing text value (None) and a missing number (NaN): coordinates, lengths
\* and identifiers are never negative, so NaN is told apart from every number
NULL == "null"
NaN == 0 - 1

(***************************************************************************)
(* Bounds of the model.                                                     *)
(***************************************************************************)
MaxEvents == 3
MaxFiles == 3

\* ---- generic helpers --------------------------------------------------
RECURSIVE SumSeq(_)
SumSeq(s) == IF s = <<>> THEN 0 ELSE s[1] + SumSeq(Tail(s))

SeqsUpTo(S, n) == UNION {[1..k -> S] : k \in 0..n}

Min(S) == CHOOSE v \in S : \A w \in S : v <= w
Max(S) == CHOOSE v \in S : \A w \in S : v >= w

(***************************************************************************)
(* Possession segmenter: build_possessions.                                 *)
(***************************************************************************)
TEAM_COL == "possession_team_name"

needed == {"match_id", "period", "timestamp", TEAM_COL, "x", "y", "type_name"}

\* a sort by match_id and period only
KeyLess_without_timestamp(a, b) ==
    \/ a.match_id < b.match_id
    \/ a.match_id = b.match_id /\ a.period < b.period

\* events.sort_values(["match_id", "period", "timestamp"]): a stable
\* lexicographic sort (pandas sorts several keys with a stable lexsort).
KeyLess(a, b) ==
    \/ a.match_id < b.match_id
    \/ a.match_id = b.match_id /\ a.period < b.period
    \/ a.match_id = b.match_id /\ a.period = b.period /\ a.timestamp < b.timestamp

\* stable: a row goes after the equal-keyed rows that came before it, so the
\* table is folded from its last row to its first
RECURSIVE sort_values(_)
sort_values(rows) ==
    IF rows = <<>> THEN <<>>
    ELSE LET rest == sort_values(Tail(rows))
             RECURSIVE Ins(_)
             Ins(s) == IF s = <<>> THEN <<rows[1]>>
                       ELSE IF KeyLess(s[1], rows[1])
                            THEN <<s[1]>> \o Ins(Tail(s))
                            ELSE <<rows[1]>> \o s
         IN Ins(rest)

\* df["possession_change"]: the team or the period differs from the row before
\* (shift(1) leaves NaN before the first row, and a value differs from NaN)
possession_change_team_only(df, i) ==
    \/ i = 1
    \/ df[i].team # df[i - 1].team

possession_change(df, i) ==
    \/ i = 1
    \/ df[i].team # df[i - 1].team
    \/ df[i].period # df[i - 1].period

\* df["poss_id"] = df["possession_change"].cumsum()
poss_id(df, i) == Cardinality({j \in 1..i : possession_change(df, j)})

\* the keys of df.groupby(["match_id", "poss_id", TEAM_COL]); a row whose key
\* holds a missing value is in no group (groupby drops it)
GroupKeys(df) ==
    {<<df[i].match_id, poss_id(df, i), df[i].team>> :
        i \in {j \in 1..Len(df) : df[j].team # NULL}}

GroupRows(df, k) ==
    LET idx == {i \in 1..Len(df) :
                  <<df[i].match_id, poss_id(df, i), df[i].team>> = k}
        RECURSIVE Take(_)
        Take(i) == IF i > Len(df) THEN <<>>
                   ELSE IF i \in idx THEN <<df[i]>> \o Take(i + 1)
                        ELSE Take(i + 1)
    IN Take(1)

\* the values of one column of a group, in row order
Column(g, c) == [i \in 1..Len(g) |-> g[i][c]]

\* the aggregations of .agg(...), each over the values of one column
AggMin(vals) == Min({vals[i] : i \in 1..Len(vals)})

AggMax(vals) == Max({vals[i] : i \in 1..Len(vals)})

\* a "first" that fills a wholly missing column with zero
AggFirstZeroFilled(vals) ==
    LET nn == {i \in 1..Len(vals) : vals[i] # NaN}
    IN IF nn = {} THEN 0 ELSE vals[Min(nn)]

\* "first" / "last": the first / last value that is not missing, else missing
AggFirst(vals) ==
    LET nn == {i \in 1..Len(vals) : vals[i] # NaN}
    IN IF nn = {} THEN NaN ELSE vals[Min(nn)]

AggLast(vals) ==
    LET nn == {i \in 1..Len(vals) : vals[i] # NaN}
    IN IF nn = {} THEN NaN ELSE vals[Max(nn)]

\* "count": the number of values that are not missing
AggCount(vals) == Cardinality({i \in 1..Len(vals) : vals[i] # NULL})

Summarize(df, k) ==
    LET g == GroupRows(df, k)
    IN [match_id |-> k[1], poss_id |-> k[2], team_name |-> k[3],
        start_time |-> AggMin(Column(g, "timestamp")),
        end_time |-> AggMax(Column(g, "timestamp")),
        start_x |-> AggFirst(Column(g, "x")),
        start_y |-> AggFirst(Column(g, "y")),
        end_x |-> AggLast(Column(g, "x")),
        end_y |-> AggLast(Column(g, "y")),
        n_events |-> AggCount(Column(g, "type_name"))]

\* groupby sorts the groups by their keys
KeyBefore(a, b) ==
    \/ a[1] < b[1]
    \/ a[1] = b[1] /\ a[2] < b[2]

RECURSIVE OrderKeys(_)
OrderKeys(K) ==
    IF K = {} THEN <<>>
    ELSE LET k == CHOOSE a \in K : \A b \in K \ {a} : KeyBefore(a, b)
         IN <<k>> \o OrderKeys(K \ {k})

\* a check that does not require the coordinate columns
missing_columns_coordinates_optional(cols) == (needed \ {"x", "y"}) \ cols

\* `if missing: raise ValueError(...)`
missing_columns(cols) == needed \ cols

build_possessions(rows) ==
    LET df == sort_values(rows)
        keys == OrderKeys(GroupKeys(df))
    IN [i \in 1..Len(keys) |-> Summarize(df, keys[i])]

\* ---- the segmenter as a state machine ---------------------------------
SegMatches == {1, 2}
SegPeriods == {1, 2}
SegTimes == {0, 1}
SegTeams == {"A", "B"}
SegTypes == {"Pass", NULL}

SegEvents ==
    [match_id : SegMatches, period : SegPeriods, timestamp : SegTimes,
     team : SegTeams, x : {NaN}, y : {NaN}, type_name : SegTypes]

Idle ==
    /\ config = NULL /\ match_idx = 0 /\ module_idx = 0
    /\ match_features = {} /\ all_match_features = <<>>
    /\ invoked = {} /\ raised = {} /\ other_features = {}
    /\ processed = {} /\ skipped = {}

AggUnchanged ==
    UNCHANGED <<config, match_idx, module_idx, match_features,
                all_match_features, invoked, raised, other_features,
                processed, skipped>>

InitSeg ==
    /\ pc = "call"
    /\ events \in SeqsUpTo(SegEvents, MaxEvents)
    /\ columns = needed
    /\ result = <<>>
    /\ Idle

BuildPossessions ==
    /\ pc = "call"
    /\ IF missing_columns(columns) # {}
       THEN pc' = "raised" /\ result' = result
       ELSE pc' = "done" /\ result' = build_possessions(events)
    /\ UNCHANGED <<events, columns>>
    /\ AggUnchanged

NextSeg == BuildPossessions

SpecSeg == InitSeg /\ [][NextSeg]_vars

\* ---- claims about the segmenter ---------------------------------------
SegmentsOf(m) == {i \in 1..Len(result) : result[i].match_id = m}

RowsOf(m) == {i \in 1..Len(events) : events[i].match_id = m}

\* C1: for every match, the n_events of its returned segments sum to the
\* number of its event rows (every event is counted in exactly one segment)
C1_PartitionInvariant ==
    pc = "done" =>
        \A m \in SegMatches :
            SumSeq([i \in 1..Len(result) |->
                       IF i \in SegmentsOf(m) THEN result[i].n_events ELSE 0])
                = Cardinality(RowsOf(m))

\* the number of segments the boundary rule asks for: 1 plus the number of
\* adjacent rows of the match, in (match_id, period, timestamp) order, that
\* differ in team or in period
ExpectedSegments(m) ==
    LET df == sort_values(events)
        idx == {i \in 1..Len(df) : df[i].match_id = m}
    IN IF idx = {} THEN 0
       ELSE 1 + Cardinality({i \in idx : /\ i - 1 \in idx
                                         /\ \/ df[i].team # df[i - 1].team
                                            \/ df[i].period # df[i - 1].period})

\* C2: a new segment starts exactly where the team or the period differs from
\* the row before: a match has 1 + (number of differing adjacent pairs)
\* segments, and a two-row match has two segments when team or period differ
\* and one segment otherwise
C2_SegmentBoundaries ==
    pc = "done" =>
        /\ \A m \in SegMatches : Cardinality(SegmentsOf(m)) = ExpectedSegments(m)
        /\ (Len(events) = 2 /\ events[1].match_id = events[2].match_id) =>
              Len(result) = IF \/ events[1].team # events[2].team
                               \/ events[1].period # events[2].period
                            THEN 2 ELSE 1

\* C2 witness: two rows of one match, same team, different period, two segments
C2_Witness ==
    /\ pc = "done"
    /\ Len(events) = 2
    /\ events[1].match_id = events[2].match_id
    /\ events[1].team = events[2].team
    /\ events[1].period # events[2].period
    /\ Len(result) = 2

(***************************************************************************)
(* Match feature aggregator: get_feature_modules,                           *)
(* compute_features_for_match and compute_all_features.                     *)
(***************************************************************************)
\* the module names of get_feature_modules(), in the order of the list
get_feature_modules_composite_first ==
    <<"composite_features", "access_control", "defensive_actions",
      "pressure_tempo", "spatial_compactness", "passing_features",
      "carrying_features", "recovery_transition", "temporal_features",
      "zone_specific", "player_tactical", "contextual_features">>

get_feature_modules ==
    <<"access_control", "defensive_actions", "pressure_tempo",
      "spatial_compactness", "passing_features", "carrying_features",
      "recovery_transition", "temporal_features", "zone_specific",
      "player_tactical", "composite_features", "contextual_features">>

ModuleNames == {get_feature_modules[i] : i \in 1..Len(get_feature_modules)}

\* the keys of the mapping each compute_<module>_features function returns
compute_access_control_features_keys ==
    {"progressive_passes_allowed_midfield",
     "progressive_pass_prevention_rate",
     "progressive_passes_central_lane", "progressive_passes_wide",
     "progressive_pass_distance_allowed",
     "progressive_pass_angle_allowed", "through_balls_allowed_midfield",
     "through_ball_prevention_rate", "through_balls_ending_final_third",
     "switches_allowed_midfield", "switch_prevention_rate",
     "switch_distance_allowed"}

compute_defensive_action_features_keys ==
    {"midfield_interceptions_total",
     "midfield_interceptions_per_possession",
     "midfield_interception_success_rate",
     "midfield_interceptions_central", "midfield_interceptions_wide",
     "midfield_interceptions_progressive",
     "midfield_interception_time_to_event", "midfield_recoveries_total",
     "midfield_recovery_rate", "midfield_recovery_success_rate",
     "midfield_recoveries_after_pressure",
     "midfield_recovery_locations_x", "midfield_recovery_locations_y",
     "midfield_recovery_time_to_event", "midfield_duels_total",
     "midfield_duel_win_rate", "midfield_aerial_duels_won",
     "midfield_ground_duels_won", "midfield_duels_under_pressure",
     "midfield_duel_locations_x_mean", "midfield_duel_locations_x_std",
     "midfield_duel_locations_y_mean", "midfield_duel_locations_y_std"}

compute_pressure_tempo_features_keys ==
    {"midfield_pressure_events_total", "midfield_pressure_rate",
     "midfield_pressure_in_first_5s", "midfield_pressure_in_first_10s",
     "midfield_time_to_first_pressure", "midfield_pressure_zone_left",
     "midfield_pressure_zone_center", "midfield_pressure_zone_right",
     "midfield_pressure_on_passes", "midfield_pressure_on_receipts",
     "midfield_reaction_time", "midfield_pressing_intensity",
     "midfield_immediate_pressure_rate", "midfield_pressure_persistence"}

compute_spatial_compactness_features_keys ==
    {"midfield_defensive_width", "midfield_defensive_depth",
     "midfield_compactness_index", "midfield_central_concentration",
     "midfield_player_density", "midfield_left_zone_coverage",
     "midfield_central_zone_coverage", "midfield_right_zone_coverage",
     "midfield_zone_balance", "midfield_coverage_gaps_count",
     "midfield_defensive_actions_x_mean",
     "midfield_defensive_actions_x_std",
     "midfield_defensive_actions_y_mean",
     "midfield_defensive_actions_y_std",
     "midfield_defensive_actions_clustering"}

compute_passing_features_keys ==
    {"passes_allowed_midfield_total", "passes_intercepted_midfield",
     "pass_completion_rate_allowed_midfield", "passes_allowed_forward",
     "passes_allowed_backward", "passes_allowed_lateral",
     "average_pass_length_allowed", "long_passes_allowed_midfield",
     "passes_before_interception", "consecutive_passes_allowed_midfield",
     "pass_sequence_length_allowed", "pass_chain_break_rate",
     "passes_allowed_left_to_right", "passes_allowed_right_to_left",
     "passes_allowed_center_to_wide", "passes_allowed_wide_to_center",
     "passes_allowed_defensive_to_final"}

compute_carrying_features_keys ==
    {"carries_allowed_midfield_total", "carries_interrupted_midfield",
     "carry_distance_allowed", "carries_entering_midfield",
     "carries_exiting_midfield", "carries_through_midfield",
     "carry_progression_allowed", "carries_forward_allowed",
     "carries_lateral_allowed", "carries_central_lane",
     "carries_wide_areas"}

compute_recovery_transition_features_keys ==
    {"midfield_transition_recoveries", "midfield_counter_press_events",
     "midfield_transition_to_attack",
     "midfield_recovery_location_quality", "possession_won_midfield",
     "possession_lost_midfield", "midfield_possession_win_rate",
     "midfield_turnover_rate"}

\* temporal_features.py is imported by main_feature.py; its feature names stand
\* for "match-clock/period-based descriptive statistics"
compute_temporal_features ==
    {"temporal_features"}

compute_zone_specific_features_keys ==
    {"defensive_to_midfield_passes_allowed",
     "defensive_to_midfield_carries_allowed",
     "defensive_to_midfield_prevention_rate",
     "defensive_to_midfield_interception_rate",
     "midfield_to_final_passes_allowed",
     "midfield_to_final_carries_allowed",
     "midfield_to_final_prevention_rate",
     "midfield_to_final_interception_rate", "bypass_attempts_total",
     "bypass_prevention_rate"}

compute_player_tactical_features_keys ==
    {"midfielder_interceptions_per_player",
     "midfielder_recoveries_per_player",
     "midfielder_pressures_per_player",
     "midfielder_duel_win_rate_per_player", "midfielder_zone_coverage",
     "formation_type", "midfield_player_count",
     "midfield_width_utilization", "midfield_depth_utilization"}

compute_composite_features_keys ==
    {"midfield_strength_index", "bypass_risk_score",
     "bypass_risk_factors", "defensive_action_efficiency",
     "pressure_to_interception_ratio", "recovery_quality_score"}

compute_contextual_features_keys ==
    {"score_differential", "match_minute", "period", "home_away",
     "time_since_last_goal", "play_pattern_regular",
     "play_pattern_set_piece", "play_pattern_transition",
     "play_pattern_counter_attack"}

FeatureNames(m) ==
    CASE m = "access_control" -> compute_access_control_features_keys
      [] m = "defensive_actions" -> compute_defensive_action_features_keys
      [] m = "pressure_tempo" -> compute_pressure_tempo_features_keys
      [] m = "spatial_compactness" -> compute_spatial_compactness_features_keys
      [] m = "passing_features" -> compute_passing_features_keys
      [] m = "carrying_features" -> compute_carrying_features_keys
      [] m = "recovery_transition" -> compute_recovery_transition_features_keys
      [] m = "temporal_features" -> compute_temporal_features
      [] m = "zone_specific" -> compute_zone_specific_features_keys
      [] m = "player_tactical" -> compute_player_tactical_features_keys
      [] m = "composite_features" -> compute_composite_features_keys
      [] m = "contextual_features" -> compute_contextual_features_keys


\* one pass of the loop body of compute_features_for_match:
\*   try: features = compute_func(**kwargs); match_features.update(features)
\*   except Exception: print a warning
module_result_defaulted(mf, m, raises) == mf \cup FeatureNames(m)

module_result(mf, m, raises) ==
    IF raises THEN mf ELSE mf \cup FeatureNames(m)

\* the loop goes on with the next module, also after a module raised
next_index(i, raises) == i + 1

\* compute_features_for_match as one call: `raising` is the set of modules
\* whose compute function raises on this match's events
RECURSIVE RunModules(_, _, _)
RunModules(mf, i, raising) ==
    IF i >= Len(get_feature_modules) THEN mf
    ELSE LET m == get_feature_modules[i + 1]
         IN RunModules(module_result(mf, m, m \in raising),
                       next_index(i, m \in raising), raising)

compute_features_for_match(mf, raising) == RunModules(mf, 0, raising)

\* the keys compute_all_features puts into match_features before the call
MetadataKeys == {"match_id", "team_name", "season", "team_id", "computed_at"}

\* ---- compute_features_for_match as a state machine --------------------
InitMatch ==
    /\ pc = "loop"
    /\ events = <<>> /\ columns = {} /\ result = {}
    /\ config = NULL /\ match_idx = 0 /\ all_match_features = <<>>
    /\ processed = {} /\ skipped = {}
    /\ module_idx = 0
    /\ match_features \in {{}, MetadataKeys}
    /\ invoked = {} /\ raised = {} /\ other_features = {}

\* one iteration of `for module_name, compute_func, extra_kwargs in feature_modules`
RunModule(raises) ==
    /\ pc = "loop"
    /\ module_idx < Len(get_feature_modules)
    /\ LET m == get_feature_modules[module_idx + 1]
       IN /\ invoked' = invoked \cup {m}
          /\ other_features' = IF m = "composite_features"
                               THEN match_features ELSE other_features
          /\ raised' = IF raises THEN raised \cup {m} ELSE raised
          /\ match_features' = module_result(match_features, m, raises)
          /\ module_idx' = next_index(module_idx, raises)
    /\ UNCHANGED <<pc, events, columns, result, config, match_idx,
                   all_match_features, processed, skipped>>

ModuleReturns == RunModule(FALSE)
ModuleRaises == RunModule(TRUE)

ReturnMatchFeatures ==
    /\ pc = "loop"
    /\ module_idx >= Len(get_feature_modules)
    /\ pc' = "done"
    /\ result' = match_features
    /\ UNCHANGED <<events, columns, config, match_idx, module_idx,
                   match_features, all_match_features, invoked, raised,
                   other_features, processed, skipped>>

NextMatch ==
    \/ ModuleReturns
    \/ ModuleRaises
    \/ ReturnMatchFeatures

SpecMatch == InitMatch /\ [][NextMatch]_vars

\* ---- compute_all_features as a state machine --------------------------
\* get_team_id_from_name: the names of the team table
team_name_to_id ==
    {"Barcelona", "Real Madrid", "Atletico Madrid", "Liverpool",
     "Manchester City", "Arsenal", "Chelsea", "Tottenham Hotspur"}

FileNames == 1..MaxFiles

\* what the call finds on disk and in its arguments
Configs ==
    [config_exists : BOOLEAN,
     team_name : {NULL, "Barcelona", "Unknown FC"},
     season : {NULL, "2020/2021"},
     team_id : {NaN, 217},
     dir_exists : BOOLEAN,
     files : SUBSET FileNames]

\* json_files = sorted(team_season_dir.glob("*.json"))
RECURSIVE Sorted(_)
Sorted(S) ==
    IF S = {} THEN <<>>
    ELSE LET f == Min(S) IN <<f>> \o Sorted(S \ {f})

json_files == Sorted(config.files)

\* the checks before the loop: the first that fails raises
PreLoopError(c) ==
    \/ ~c.config_exists
    \/ c.team_name = NULL
    \/ c.season = NULL
    \/ c.team_id = NaN /\ c.team_name \notin team_name_to_id
    \/ ~c.dir_exists
    \/ c.files = {}

\* the sets of raising modules a match's events are tried with
RaisingSets == {{}, {"access_control"}, {"zone_specific", "composite_features"},
                ModuleNames}

\* `if not all_match_features: raise ValueError(...)`, else the table
finish_raises_never(rows) == FALSE

finish_raises(rows) == rows = <<>>

\* `except Exception as e: print(...); continue`
after_match_error_break(i, n) == n

after_match_error(i, n) == i + 1

InitAll ==
    /\ pc = "start"
    /\ events = <<>> /\ columns = {} /\ result = <<>>
    /\ config \in Configs
    /\ match_idx = 0 /\ module_idx = 0
    /\ match_features = {} /\ all_match_features = <<>>
    /\ invoked = {} /\ raised = {} /\ other_features = {}
    /\ processed = {} /\ skipped = {}

AllUnchanged ==
    UNCHANGED <<events, columns, config, module_idx, match_features,
                invoked, raised, other_features>>

\* load_config ... `if not json_files: raise FileNotFoundError`
StartRaises ==
    /\ pc = "start"
    /\ PreLoopError(config)
    /\ pc' = "raised"
    /\ UNCHANGED <<result, match_idx, all_match_features, processed, skipped>>
    /\ AllUnchanged

StartLoop ==
    /\ pc = "start"
    /\ ~PreLoopError(config)
    /\ pc' = "loop"
    /\ UNCHANGED <<result, match_idx, all_match_features, processed, skipped>>
    /\ AllUnchanged

\* load_single_json or clean_events raises: the match is skipped
MatchRaises ==
    /\ pc = "loop"
    /\ match_idx < Len(json_files)
    /\ LET f == json_files[match_idx + 1]
       IN /\ processed' = processed \cup {f}
          /\ skipped' = skipped \cup {f}
    /\ match_idx' = after_match_error(match_idx, Len(json_files))
    /\ UNCHANGED <<pc, result, all_match_features>>
    /\ AllUnchanged

\* the match is loaded and cleaned; its row is appended
MatchSucceeds ==
    /\ pc = "loop"
    /\ match_idx < Len(json_files)
    /\ \E raising \in RaisingSets :
         LET f == json_files[match_idx + 1]
             row == [match_id |-> f,
                     keys |-> compute_features_for_match(MetadataKeys, raising)]
         IN /\ all_match_features' = Append(all_match_features, row)
            /\ processed' = processed \cup {f}
    /\ match_idx' = match_idx + 1
    /\ UNCHANGED <<pc, result, skipped>>
    /\ AllUnchanged

\* after the loop: raise ValueError when no row was collected, else return
Finish ==
    /\ pc = "loop"
    /\ match_idx >= Len(json_files)
    /\ IF finish_raises(all_match_features)
       THEN pc' = "raised" /\ result' = result
       ELSE pc' = "returned" /\ result' = all_match_features
    /\ UNCHANGED <<match_idx, all_match_features, processed, skipped>>
    /\ AllUnchanged

NextAll ==
    \/ StartRaises
    \/ StartLoop
    \/ MatchRaises
    \/ MatchSucceeds
    \/ Finish

SpecAll == InitAll /\ [][NextAll]_vars

\* ---- claims about the aggregator ---------------------------------------
\* C3: whatever subset of modules raises, every module is invoked, the call
\* returns, and the returned mapping holds all feature names of the modules
\* that succeeded and none of a module that raised
C3_PartialFailureIsolation ==
    /\ pc \in {"loop", "done"}
    /\ (pc = "loop" /\ module_idx >= Len(get_feature_modules)) =>
          ENABLED ReturnMatchFeatures
    /\ pc = "done" =>
          /\ invoked = ModuleNames
          /\ \A m \in ModuleNames :
                IF m \in raised THEN FeatureNames(m) \cap result = {}
                ELSE FeatureNames(m) \subseteq result

\* C3 witness: two modules raised, the call returned without their features
\* and with those of a later module
C3_Witness ==
    /\ pc = "done"
    /\ raised = {"access_control", "zone_specific"}
    /\ "bypass_attempts_total" \notin result
    /\ "match_minute" \in result

PositionOf(m) ==
    CHOOSE i \in 1..Len(get_feature_modules) : get_feature_modules[i] = m

\* C6: the modules run in the order of the list; the composite module is
\* invoked only after access_control, carrying_features and zone_specific,
\* and other_features holds every feature of every module that succeeded
\* before it
C6_CompositeReceivesAccumulated ==
    /\ invoked = {get_feature_modules[i] : i \in 1..module_idx}
    /\ "composite_features" \in invoked =>
          /\ {"access_control", "carrying_features", "zone_specific"}
                \subseteq invoked
          /\ \A m \in ModuleNames :
                (PositionOf(m) < PositionOf("composite_features") /\ m \notin raised)
                    => FeatureNames(m) \subseteq other_features
          /\ "access_control" \notin raised =>
                {"progressive_passes_allowed_midfield",
                 "through_balls_allowed_midfield"} \subseteq other_features
          /\ "carrying_features" \notin raised =>
                "carries_through_midfield" \in other_features
          /\ "zone_specific" \notin raised =>
                "bypass_attempts_total" \in other_features

\* C6 witness: the composite module ran after ten modules that all succeeded
C6_Witness ==
    /\ "composite_features" \in invoked
    /\ raised = {}
    /\ {"progressive_passes_allowed_midfield", "through_balls_allowed_midfield",
        "carries_through_midfield", "bypass_attempts_total"}
          \subseteq other_features

RowIds == [i \in 1..Len(all_match_features) |-> all_match_features[i].match_id]

\* C4: the table has exactly one row for each match file processed without
\* raising, in the sorted order of the files; a match that raised has no row,
\* and the matches after it are still processed
C4_OneRowPerProcessedMatch ==
    /\ RowIds = Sorted(processed \ skipped)
    /\ \A i \in 1..Len(all_match_features) :
          all_match_features[i].keys
              \in {compute_features_for_match(MetadataKeys, r) : r \in RaisingSets}
    /\ pc = "returned" => result = all_match_features
    /\ (pc = "returned" \/ (pc = "raised" /\ ~PreLoopError(config))) =>
          processed = config.files

\* C4 witness: the second of three files could not be parsed, the table has
\* the rows of the first and the third
C4_Witness ==
    /\ pc = "returned"
    /\ config.files = {1, 2, 3}
    /\ skipped = {2}
    /\ Len(result) = 2
    /\ result[1].match_id = 1 /\ result[2].match_id = 3

MaxRows == 3

\* default arguments of every extractor
team_id == 217
midfield_x_min == 40
midfield_x_max == 80

\* the other team of the match
opponent_id == 1

\* What an extractor call produces: a number n/d (an int has d = 1), None,
\* a float NaN, or an exception.
IntVal(n) == [kind |-> "int", n |-> n, d |-> 1]
FloatVal(n, d) == [kind |-> "float", n |-> n, d |-> d]
NoneVal == [kind |-> "none", n |-> 0, d |-> 1]
NanVal == [kind |-> "nan", n |-> 0, d |-> 1]
RaiseVal == [kind |-> "raise", n |-> 0, d |-> 1]

\* two results are the same outcome (numbers compared as fractions)
SameVal(a, b) ==
    IF a.kind \in {"int", "float"} /\ b.kind \in {"int", "float"}
    THEN a.n * b.d = b.n * a.d
    ELSE a.kind = b.kind

\* np.mean of a non-empty list of integers
np_mean(vals) == FloatVal(SumSeq(vals), Len(vals))

\* Series.mean(): missing values are skipped; NaN when nothing is left
series_mean(vals) ==
    LET present == SelectSeq(vals, LAMBDA v : v # NaN)
    IN IF present = <<>> THEN NanVal ELSE np_mean(present)

\* np.sqrt on the squared distances the model's coordinates produce
np_sqrt(n) == CHOOSE r \in 0..n : r * r <= n /\ n < (r + 1) * (r + 1)

\* all columns clean_events gives the table
AllColumns ==
    {"team.id", "possession_team.id", "type_name", "x", "y", "possession",
     "timestamp", "pass.length", "pass.end_location", "pass.switch",
     "pass.angle", "carry.end_location", "outcome_name"}

\* one event row; its index label is its position in the table
Row(tid, ptid, ty, x, y, poss, ts, len, endloc, sw, ang, cend, out) ==
    [team_id |-> tid, possession_team_id |-> ptid, type_name |-> ty,
     x |-> x, y |-> y, possession |-> poss, timestamp |-> ts,
     pass_length |-> len, pass_end_location |-> endloc, pass_switch |-> sw,
     pass_angle |-> ang, carry_end_location |-> cend, outcome_name |-> out]

\* a list-valued location that is missing
NoLoc == <<>>

\* defensive events of the evaluated team, with and without coordinates,
\* inside an opponent possession (1) or an own possession (2)
OwnDefensiveRows ==
    {Row(team_id, pt, ty, xy[1], xy[2], IF pt = team_id THEN 2 ELSE 1, 1,
         NaN, NoLoc, FALSE, NaN, NoLoc, NULL) :
        pt \in {opponent_id, team_id},
        ty \in {"Interception", "Ball Recovery"},
        xy \in {<<NaN, NaN>>, <<50, NaN>>, <<50, 40>>, <<50, 10>>}}

\* opponent passes: outside the zone, unlocated, and in the zone with the
\* pass attributes present or missing (end x on both sides of start + 5,
\* length on both sides of 10)
OpponentPassRows ==
    {Row(opponent_id, opponent_id, "Pass", xy[1], xy[2], 1, 0,
         12, NoLoc, FALSE, NaN, NoLoc, "Complete") :
        xy \in {<<NaN, NaN>>, <<10, 40>>, <<85, 40>>}}
    \cup
    {Row(opponent_id, opponent_id, "Pass", 50, 40, 1, 0,
         a[1], a[2], a[3], a[4], NoLoc, a[5]) :
        a \in {<<NaN, NoLoc, FALSE, NaN, NULL>>,
               <<12, <<58>>, TRUE, 1, "Complete">>,
               <<12, <<58, 40>>, FALSE, 1, "Incomplete">>,
               <<12, <<54>>, FALSE, 1, "Complete">>,
               <<12, <<55>>, FALSE, 1, "Complete">>,
               <<10, <<58>>, FALSE, 1, "Complete">>,
               <<5, <<58, 40>>, FALSE, 1, "Complete">>,
               <<5, <<58>>, FALSE, NaN, "Incomplete">>}}

\* opponent carries, in the opponent possessions 1 and 3
OpponentCarryRows ==
    {Row(opponent_id, opponent_id, "Carry", xy[1], xy[2], 1, 0,
         NaN, NoLoc, FALSE, NaN, NoLoc, NULL) :
        xy \in {<<NaN, NaN>>, <<10, 40>>, <<85, 40>>, <<50, 40>>}}
    \cup
    {Row(opponent_id, opponent_id, "Carry", 50, 40, 1, 0,
         NaN, NoLoc, FALSE, NaN, <<53, 44>>, NULL)}
    \cup
    {Row(opponent_id, opponent_id, "Carry", x, 40, 3, 0,
         NaN, NoLoc, FALSE, NaN, NoLoc, NULL) : x \in {10, 50, 85}}

FeatRows == OwnDefensiveRows \cup OpponentPassRows \cup OpponentCarryRows

\* the tables the extractors are called with: every column present, or one
\* prerequisite column absent
FeatColumns ==
    {AllColumns} \cup
    {AllColumns \ {c} : c \in {"x", "y", "possession", "timestamp",
                               "pass.length", "possession_team.id"}}

\* (events['x'] >= midfield_x_min) & (events['x'] <= midfield_x_max) &
\* events['x'].notna(), for one row
in_midfield(r) == r.x # NaN /\ r.x >= midfield_x_min /\ r.x <= midfield_x_max

\* events['x'] raises KeyError when the table has no column x
x_lookup_raises(cols) == "x" \notin cols

\* events[events.get('possession_team.id', pd.Series()) != team_id]['possession']
\* raises when the possession-team column is absent from a non-empty table
\* (the empty Series cannot be aligned as a boolean indexer) or when the
\* table has no possession column
opponent_possessions_raises(cols, rows) ==
    \/ "possession_team.id" \notin cols /\ rows # <<>>
    \/ "possession" \notin cols

\* .unique() / .nunique() of the possession numbers of the opponent's events
opponent_possessions(cols, rows) ==
    {rows[i].possession : i \in {j \in 1..Len(rows) :
                                  rows[j].possession_team_id # team_id}}

\* events[events['possession'] == poss], as index labels in table order
poss_events(rows, poss) ==
    SelectSeq([i \in 1..Len(rows) |-> i], LAMBDA i : rows[i].possession = poss)

\* (events.get('possession_team.id', pd.Series()) != team_id) inside a
\* conjunction of masks: all False when the column is absent
opponent_mask(cols, r) ==
    "possession_team.id" \in cols /\ r.possession_team_id # team_id

\* defensive_actions._get_midfield_events
_get_midfield_events(rows) == SelectSeq(rows, in_midfield)

compute_midfield_interceptions_total(cols, rows) ==
    IF x_lookup_raises(cols) THEN RaiseVal
    ELSE IntVal(Len(SelectSeq(_get_midfield_events(rows),
                      LAMBDA r : r.type_name = "Interception"
                                 /\ r.team_id = team_id)))

compute_midfield_interceptions_per_possession(cols, rows) ==
    LET total == compute_midfield_interceptions_total(cols, rows)
        n == Cardinality(opponent_possessions(cols, rows))
    IN IF total.kind = "raise" \/ opponent_possessions_raises(cols, rows)
       THEN RaiseVal
       ELSE IF n > 0 THEN FloatVal(total.n, n) ELSE FloatVal(0, 1)

compute_midfield_recovery_locations_x(cols, rows) ==
    LET rec == SelectSeq(_get_midfield_events(rows),
                   LAMBDA r : r.type_name = "Ball Recovery"
                              /\ r.team_id = team_id)
    IN IF x_lookup_raises(cols) THEN RaiseVal
       ELSE IF Len(rec) > 0
            THEN series_mean([i \in 1..Len(rec) |-> rec[i].x])
            ELSE NoneVal

\* spatial_compactness._get_defensive_events
_get_defensive_events(rows) ==
    SelectSeq(rows, LAMBDA r :
        /\ r.team_id = team_id
        /\ in_midfield(r)
        /\ r.type_name \in {"Interception", "Ball Recovery", "Duel", "Block",
                            "Clearance"})

compute_midfield_central_concentration(cols, rows) ==
    LET defensive_events == _get_defensive_events(rows)
        central_actions == SelectSeq(defensive_events,
                               LAMBDA r : r.y # NaN /\ r.y >= 35 /\ r.y <= 45)
    IN IF x_lookup_raises(cols) THEN RaiseVal
       ELSE IF Len(defensive_events) > 0 /\ "y" \in cols
            THEN FloatVal(Len(central_actions), Len(defensive_events))
            ELSE FloatVal(0, 1)

compute_midfield_player_density(cols, rows) ==
    LET defensive_events == _get_defensive_events(rows)
        groups == {defensive_events[i].possession :
                      i \in 1..Len(defensive_events)}
    IN IF x_lookup_raises(cols) THEN RaiseVal
       ELSE IF "possession" \in cols /\ Len(defensive_events) > 0
            THEN FloatVal(Len(defensive_events), Cardinality(groups))
            ELSE FloatVal(0, 1)

\* a possession counted for reaching beyond the zone wherever it started
is_bypass_any_origin(cols, rows, poss) ==
    LET pe == poss_events(rows, poss)
        xs == {rows[pe[i]].x : i \in 1..Len(pe)} \ {NaN}
    IN Len(pe) > 0 /\ "x" \in cols /\ xs # {} /\ Max(xs) > 80

\* zone_specific.compute_bypass_attempts_total: one possession bypasses when
\* its first row (table order) lies before the zone and some row beyond it
is_bypass(cols, rows, poss) ==
    LET pe == poss_events(rows, poss)
        start_x == IF "x" \in cols THEN rows[pe[1]].x ELSE 0
        xs == {rows[pe[i]].x : i \in 1..Len(pe)} \ {NaN}
    IN /\ Len(pe) > 0
       /\ start_x # NaN /\ start_x < 40
       /\ "x" \in cols /\ xs # {} /\ Max(xs) > 80

compute_bypass_attempts_total(cols, rows) ==
    IF opponent_possessions_raises(cols, rows) THEN RaiseVal
    ELSE IntVal(Cardinality({p \in opponent_possessions(cols, rows) :
                                 is_bypass(cols, rows, p)}))

\* the share of bypassing possessions (not its complement)
compute_bypass_rate(cols, rows) ==
    LET bypass_attempts == compute_bypass_attempts_total(cols, rows)
        n == Cardinality(opponent_possessions(cols, rows))
    IN IF bypass_attempts.kind = "raise" THEN RaiseVal
       ELSE IF n > 0 THEN FloatVal(bypass_attempts.n, n)
            ELSE FloatVal(0, 1)

compute_bypass_prevention_rate(cols, rows) ==
    LET bypass_attempts == compute_bypass_attempts_total(cols, rows)
        n == Cardinality(opponent_possessions(cols, rows))
    IN IF bypass_attempts.kind = "raise" THEN RaiseVal
       ELSE IF n > 0 THEN FloatVal(n - bypass_attempts.n, n)
            ELSE FloatVal(0, 1)

\* the opponent's passes that start in the midfield zone (the mask repeated
\* in access_control and passing_features._get_opponent_passes_midfield)
_get_opponent_passes_midfield(cols, rows) ==
    SelectSeq(rows, LAMBDA r :
        r.type_name = "Pass" /\ opponent_mask(cols, r) /\ in_midfield(r))

\* pd.notna(pass_length) and pd.notna(pass_end_loc) and ...: pd.notna of a
\* list is an array, and the truth value of an array of two or more elements
\* is a ValueError
notna_chain_raises(r) == r.pass_length # NaN /\ Len(r.pass_end_location) >= 2

\* the row passes the notna/isinstance/len condition of the loop
has_length_and_end(r) == r.pass_length # NaN /\ Len(r.pass_end_location) = 1

\* pass_length > 10 and pass_end_loc[0] > pass_x + 5
is_progressive(r) ==
    has_length_and_end(r) /\ r.pass_length > 10
    /\ r.pass_end_location[1] > r.x + 5

compute_progressive_passes_allowed_midfield(cols, rows) ==
    LET opponent_passes == _get_opponent_passes_midfield(cols, rows)
    IN IF x_lookup_raises(cols) THEN RaiseVal
       ELSE IF "pass.length" \notin cols \/ "pass.end_location" \notin cols
            THEN IntVal(0)
       ELSE IF \E i \in 1..Len(opponent_passes) :
                  notna_chain_raises(opponent_passes[i])
            THEN RaiseVal
       ELSE IntVal(Len(SelectSeq(opponent_passes, is_progressive)))

compute_progressive_pass_distance_allowed(cols, rows) ==
    LET opponent_passes == _get_opponent_passes_midfield(cols, rows)
        prog == SelectSeq(opponent_passes, is_progressive)
    IN IF x_lookup_raises(cols) THEN RaiseVal
       ELSE IF "pass.length" \notin cols \/ "pass.end_location" \notin cols
            THEN NoneVal
       ELSE IF \E i \in 1..Len(opponent_passes) :
                  notna_chain_raises(opponent_passes[i])
            THEN RaiseVal
       ELSE IF prog # <<>>
            THEN np_mean([i \in 1..Len(prog) |-> prog[i].pass_length])
            ELSE NoneVal

compute_progressive_pass_angle_allowed(cols, rows) ==
    LET opponent_passes == _get_opponent_passes_midfield(cols, rows)
        prog == SelectSeq(opponent_passes,
                    LAMBDA r : is_progressive(r) /\ r.pass_angle # NaN)
    IN IF x_lookup_raises(cols) THEN RaiseVal
       ELSE IF "pass.length" \notin cols \/ "pass.end_location" \notin cols
               \/ "pass.angle" \notin cols
            THEN NoneVal
       ELSE IF \E i \in 1..Len(opponent_passes) :
                  notna_chain_raises(opponent_passes[i])
            THEN RaiseVal
       ELSE IF prog # <<>>
            THEN np_mean([i \in 1..Len(prog) |-> prog[i].pass_angle])
            ELSE NoneVal

compute_switch_distance_allowed(cols, rows) ==
    LET opponent_passes == _get_opponent_passes_midfield(cols, rows)
        switches == SelectSeq(opponent_passes, LAMBDA r : r.pass_switch)
    IN IF x_lookup_raises(cols) THEN RaiseVal
       ELSE IF "pass.switch" \notin cols \/ "pass.length" \notin cols
            THEN NoneVal
       ELSE IF Len(switches) > 0
            THEN series_mean([i \in 1..Len(switches) |->
                                 switches[i].pass_length])
            ELSE NoneVal

compute_pass_completion_rate_allowed_midfield(cols, rows) ==
    LET opponent_passes_midfield == _get_opponent_passes_midfield(cols, rows)
        completed_passes == SelectSeq(opponent_passes_midfield,
                                LAMBDA r : r.outcome_name = "Complete")
    IN IF x_lookup_raises(cols) THEN RaiseVal
       ELSE IF Len(opponent_passes_midfield) > 0
            THEN FloatVal(Len(completed_passes),
                          Len(opponent_passes_midfield))
            ELSE NoneVal

\* .sort_values('timestamp') of a possession's events, as index labels
\* (ties keep table order)
sort_by_timestamp(rows, idx) ==
    LET RECURSIVE Ins(_, _)
        Ins(s, i) ==
            IF s = <<>> THEN <<i>>
            ELSE IF rows[i].timestamp < rows[s[1]].timestamp
                 THEN <<i>> \o s
                 ELSE <<s[1]>> \o Ins(Tail(s), i)
        RECURSIVE Go(_, _)
        Go(acc, k) ==
            IF k > Len(idx) THEN acc ELSE Go(Ins(acc, idx[k]), k + 1)
    IN Go(<<>>, 1)

\* the possession's passes, and the evaluated team's interceptions in it
poss_passes(rows, poss) ==
    SelectSeq(sort_by_timestamp(rows, poss_events(rows, poss)),
              LAMBDA i : rows[i].type_name = "Pass")

poss_interceptions(rows, poss) ==
    SelectSeq(sort_by_timestamp(rows, poss_events(rows, poss)),
              LAMBDA i : rows[i].type_name = "Interception"
                         /\ rows[i].team_id = team_id)

\* len(poss_passes[poss_passes.index < first_interception_idx])
passes_before(rows, poss) ==
    LET first_interception_idx == poss_interceptions(rows, poss)[1]
    IN Len(SelectSeq(poss_passes(rows, poss),
                     LAMBDA i : i < first_interception_idx))

\* the per-possession loops sort by timestamp: KeyError without the column
\* as soon as there is an opponent possession to loop over
possession_loop_raises(cols, rows) ==
    \/ opponent_possessions_raises(cols, rows)
    \/ opponent_possessions(cols, rows) # {} /\ "timestamp" \notin cols

compute_passes_before_interception(cols, rows) ==
    LET ps == Sorted({p \in opponent_possessions(cols, rows) :
                         poss_interceptions(rows, p) # <<>>})
    IN IF possession_loop_raises(cols, rows) THEN RaiseVal
       ELSE IF ps # <<>>
            THEN np_mean([k \in 1..Len(ps) |-> passes_before(rows, ps[k])])
            ELSE FloatVal(0, 1)

compute_pass_sequence_length_allowed(cols, rows) ==
    LET ps == Sorted({p \in opponent_possessions(cols, rows) :
                         poss_passes(rows, p) # <<>>})
    IN IF possession_loop_raises(cols, rows) THEN RaiseVal
       ELSE IF ps # <<>>
            THEN np_mean([k \in 1..Len(ps) |-> Len(poss_passes(rows, ps[k]))])
            ELSE FloatVal(0, 1)

compute_pass_chain_break_rate(cols, rows) ==
    LET ops == opponent_possessions(cols, rows)
        broken == {p \in ops :
                      /\ poss_interceptions(rows, p) # <<>>
                      /\ poss_passes(rows, p) # <<>>
                      /\ passes_before(rows, p) < Len(poss_passes(rows, p))}
    IN IF possession_loop_raises(cols, rows) THEN RaiseVal
       ELSE IF Cardinality(ops) > 0
            THEN FloatVal(Cardinality(broken), Cardinality(ops))
            ELSE FloatVal(0, 1)

compute_midfield_recovery_location_quality(cols, rows) ==
    LET midfield_recoveries ==
            SelectSeq(rows, LAMBDA r :
                r.type_name = "Ball Recovery" /\ r.team_id = team_id
                /\ in_midfield(r))
    IN IF x_lookup_raises(cols) THEN RaiseVal
       ELSE IF Len(midfield_recoveries) > 0
            THEN series_mean([i \in 1..Len(midfield_recoveries) |->
                                 midfield_recoveries[i].x])
            ELSE NoneVal

\* the possession's last row (table order) is a defensive action of the team
turnover_forced(rows, poss) ==
    LET pe == poss_events(rows, poss)
        last_event == rows[pe[Len(pe)]]
    IN /\ Len(pe) > 0
       /\ last_event.team_id = team_id
       /\ last_event.type_name \in {"Interception", "Ball Recovery", "Duel"}

compute_midfield_turnover_rate(cols, rows) ==
    LET ops == opponent_possessions(cols, rows)
        turnovers_forced == {p \in ops : turnover_forced(rows, p)}
    IN IF opponent_possessions_raises(cols, rows) THEN RaiseVal
       ELSE IF Cardinality(ops) > 0
            THEN FloatVal(Cardinality(turnovers_forced), Cardinality(ops))
            ELSE FloatVal(0, 1)

\* carrying_features._get_opponent_carries_midfield
_get_opponent_carries_midfield(cols, rows) ==
    SelectSeq(rows, LAMBDA r :
        r.type_name = "Carry" /\ opponent_mask(cols, r) /\ in_midfield(r))

\* carry_distance of one carry that has both end coordinates
carry_distance(r) ==
    IF r.y = NaN THEN NaN
    ELSE np_sqrt((r.carry_end_location[1] - r.x) * (r.carry_end_location[1] - r.x)
               + (r.carry_end_location[2] - r.y) * (r.carry_end_location[2] - r.y))

\* carrying_features._get_carries_with_end_location: the carries whose end
\* location has both coordinates
_get_carries_with_end_location(cols, carries) ==
    IF "carry.end_location" \notin cols THEN <<>>
    ELSE SelectSeq(carries, LAMBDA r : Len(r.carry_end_location) >= 2)

\* carries_with_end['y'] is looked up as soon as some carry has an end
\* location: KeyError when the table has no column y
carry_distance_raises(cols, carries) ==
    /\ "carry.end_location" \in cols
    /\ \E i \in 1..Len(carries) : carries[i].carry_end_location # NoLoc
    /\ "y" \notin cols

compute_carry_distance_allowed(cols, rows) ==
    LET opponent_carries_midfield == _get_opponent_carries_midfield(cols, rows)
        carries_with_end ==
            _get_carries_with_end_location(cols, opponent_carries_midfield)
    IN IF x_lookup_raises(cols) THEN RaiseVal
       ELSE IF carry_distance_raises(cols, opponent_carries_midfield)
            THEN RaiseVal
       ELSE IF Len(carries_with_end) > 0
            THEN series_mean([i \in 1..Len(carries_with_end) |->
                                 carry_distance(carries_with_end[i])])
            ELSE NoneVal

\* every modelled extractor applied to one table
FeatureNamesModelled ==
    {"midfield_interceptions_total", "midfield_interceptions_per_possession",
     "midfield_recovery_locations_x", "midfield_central_concentration",
     "midfield_player_density", "bypass_attempts_total",
     "bypass_prevention_rate", "progressive_passes_allowed_midfield",
     "progressive_pass_distance_allowed", "progressive_pass_angle_allowed",
     "switch_distance_allowed", "pass_completion_rate_allowed_midfield",
     "passes_before_interception", "pass_sequence_length_allowed",
     "pass_chain_break_rate", "midfield_recovery_location_quality",
     "midfield_turnover_rate", "carry_distance_allowed"}

Extract(f, cols, rows) ==
    CASE f = "midfield_interceptions_total" ->
            compute_midfield_interceptions_total(cols, rows)
      [] f = "midfield_interceptions_per_possession" ->
            compute_midfield_interceptions_per_possession(cols, rows)
      [] f = "midfield_recovery_locations_x" ->
            compute_midfield_recovery_locations_x(cols, rows)
      [] f = "midfield_central_concentration" ->
            compute_midfield_central_concentration(cols, rows)
      [] f = "midfield_player_density" ->
            compute_midfield_player_density(cols, rows)
      [] f = "bypass_attempts_total" ->
            compute_bypass_attempts_total(cols, rows)
      [] f = "bypass_prevention_rate" ->
            compute_bypass_prevention_rate(cols, rows)
      [] f = "progressive_passes_allowed_midfield" ->
            compute_progressive_passes_allowed_midfield(cols, rows)
      [] f = "progressive_pass_distance_allowed" ->
            compute_progressive_pass_distance_allowed(cols, rows)
      [] f = "progressive_pass_angle_allowed" ->
            compute_progressive_pass_angle_allowed(cols, rows)
      [] f = "switch_distance_allowed" ->
            compute_switch_distance_allowed(cols, rows)
      [] f = "pass_completion_rate_allowed_midfield" ->
            compute_pass_completion_rate_allowed_midfield(cols, rows)
      [] f = "passes_before_interception" ->
            compute_passes_before_interception(cols, rows)
      [] f = "pass_sequence_length_allowed" ->
            compute_pass_sequence_length_allowed(cols, rows)
      [] f = "pass_chain_break_rate" ->
            compute_pass_chain_break_rate(cols, rows)
      [] f = "midfield_recovery_location_quality" ->
            compute_midfield_recovery_location_quality(cols, rows)
      [] f = "midfield_turnover_rate" ->
            compute_midfield_turnover_rate(cols, rows)
      [] f = "carry_distance_allowed" ->
            compute_carry_distance_allowed(cols, rows)

\* A call of the extractors on one table: result maps each feature to what
\* its function produced.
InitFeat ==
    /\ Idle
    /\ pc = "call"
    /\ events \in SeqsUpTo(FeatRows, MaxRows)
    /\ columns \in FeatColumns
    /\ result = <<>>

ExtractFeatures ==
    /\ pc = "call"
    /\ pc' = "done"
    /\ result' = [f \in FeatureNamesModelled |-> Extract(f, columns, events)]
    /\ UNCHANGED <<events, columns>>
    /\ AggUnchanged

NextFeat == ExtractFeatures

SpecFeat == InitFeat /\ [][NextFeat]_vars

\* ---------------------------------------------------------------------
\* Claims about the extractors
\* ---------------------------------------------------------------------

\* the extractors that filter events by the midfield zone or by position
ZoneFiltered ==
    {"midfield_interceptions_total", "midfield_recovery_locations_x",
     "midfield_central_concentration", "midfield_player_density",
     "bypass_attempts_total", "progressive_passes_allowed_midfield",
     "progressive_pass_distance_allowed", "switch_distance_allowed",
     "pass_completion_rate_allowed_midfield",
     "midfield_recovery_location_quality", "carry_distance_allowed"}

\* the table without the events whose x or y is missing
Located(rows) == SelectSeq(rows, LAMBDA r : r.x # NaN /\ r.y # NaN)

\* C7: every zone-filtered extractor leaves out each event whose x or y is
\* missing and does not raise because of it: on a table with every column,
\* its outcome is the one it has on the table without those events.
C7_UnlocatedEventsExcluded ==
    (pc = "done" /\ columns = AllColumns) =>
        \A f \in ZoneFiltered :
            SameVal(result[f], Extract(f, columns, Located(events)))

\* the columns each extractor reads
Prerequisites(f) ==
    CASE f \in {"midfield_interceptions_total", "midfield_recovery_locations_x",
                "midfield_recovery_location_quality"} -> {"x"}
      [] f = "midfield_interceptions_per_possession" ->
            {"x", "possession_team.id", "possession"}
      [] f = "midfield_central_concentration" -> {"x", "y"}
      [] f = "midfield_player_density" -> {"x", "possession"}
      [] f \in {"bypass_attempts_total", "bypass_prevention_rate"} ->
            {"x", "possession_team.id", "possession"}
      [] f \in {"progressive_passes_allowed_midfield",
                "progressive_pass_distance_allowed"} ->
            {"x", "possession_team.id", "pass.length", "pass.end_location"}
      [] f = "progressive_pass_angle_allowed" ->
            {"x", "possession_team.id", "pass.length", "pass.end_location",
             "pass.angle"}
      [] f = "switch_distance_allowed" ->
            {"x", "possession_team.id", "pass.switch", "pass.length"}
      [] f = "pass_completion_rate_allowed_midfield" ->
            {"x", "possession_team.id", "outcome_name"}
      [] f \in {"passes_before_interception", "pass_sequence_length_allowed",
                "pass_chain_break_rate"} ->
            {"possession_team.id", "possession", "timestamp"}
      [] f = "midfield_turnover_rate" -> {"possession_team.id", "possession"}
      [] f = "carry_distance_allowed" ->
            {"x", "y", "possession_team.id", "carry.end_location"}

\* 0, 0.0 or None
IsDefault(v) == v.kind = "none" \/ (v.kind \in {"int", "float"} /\ v.n = 0)

\* C8: on a table that lacks a column the extractor reads, or that has no
\* rows (so every filtered subset is empty), every extractor returns 0, 0.0
\* or None and does not raise.
C8_MissingColumnOrEmptyGivesDefault ==
    pc = "done" =>
        \A f \in FeatureNamesModelled :
            (events = <<>> \/ ~(Prerequisites(f) \subseteq columns)) =>
                IsDefault(result[f])

\* the rate features and the count each divides by
RateFeatures ==
    {"midfield_interceptions_per_possession",
     "pass_completion_rate_allowed_midfield", "pass_chain_break_rate",
     "midfield_turnover_rate", "bypass_prevention_rate"}

Denominator(f, cols, rows) ==
    IF f = "pass_completion_rate_allowed_midfield"
    THEN Len(_get_opponent_passes_midfield(cols, rows))
    ELSE Cardinality(opponent_possessions(cols, rows))

\* C9: on a table with every column, a rate feature whose denominator is
\* zero is 0.0 (a number equal to zero: not None, not an exception).
C9_RateZeroOnZeroDenominator ==
    (pc = "done" /\ columns = AllColumns) =>
        \A f \in RateFeatures :
            Denominator(f, columns, events) = 0 =>
                (result[f].kind = "float" /\ result[f].n = 0)

\* the mean-, distance- and angle-typed features and the size of the sample
\* each averages
MeanFeatures ==
    {"progressive_pass_distance_allowed", "progressive_pass_angle_allowed",
     "switch_distance_allowed", "midfield_recovery_locations_x",
     "midfield_recovery_location_quality", "carry_distance_allowed",
     "pass_sequence_length_allowed", "passes_before_interception",
     "midfield_player_density"}

SampleSize(f, cols, rows) ==
    CASE f = "progressive_pass_distance_allowed" ->
            Len(SelectSeq(_get_opponent_passes_midfield(cols, rows),
                          is_progressive))
      [] f = "progressive_pass_angle_allowed" ->
            Len(SelectSeq(_get_opponent_passes_midfield(cols, rows),
                          LAMBDA r : is_progressive(r) /\ r.pass_angle # NaN))
      [] f = "switch_distance_allowed" ->
            Len(SelectSeq(_get_opponent_passes_midfield(cols, rows),
                          LAMBDA r : r.pass_switch))
      [] f \in {"midfield_recovery_locations_x",
                "midfield_recovery_location_quality"} ->
            Len(SelectSeq(_get_midfield_events(rows),
                          LAMBDA r : r.type_name = "Ball Recovery"
                                     /\ r.team_id = team_id))
      [] f = "carry_distance_allowed" ->
            Len(_get_carries_with_end_location(cols,
                    _get_opponent_carries_midfield(cols, rows)))
      [] f = "pass_sequence_length_allowed" ->
            Cardinality({p \in opponent_possessions(cols, rows) :
                            poss_passes(rows, p) # <<>>})
      [] f = "passes_before_interception" ->
            Cardinality({p \in opponent_possessions(cols, rows) :
                            poss_interceptions(rows, p) # <<>>})
      [] f = "midfield_player_density" ->
            Len(_get_defensive_events(rows))

\* C10: on a table with every column, a mean-, distance- or angle-typed
\* feature whose sample is empty is None.
C10_MeanNoneOnEmptySample ==
    (pc = "done" /\ columns = AllColumns) =>
        \A f \in MeanFeatures :
            SampleSize(f, columns, events) = 0 => result[f] = NoneVal

\* the possession numbers of the opponent's events
OpponentPossessionIds ==
    {events[i].possession :
        i \in {j \in 1..Len(events) : events[j].possession_team_id # team_id}}

\* the rows of one possession, and the first of them in the table
RowsOfPossession(p) == {i \in 1..Len(events) : events[i].possession = p}

FirstRowOf(p) == events[Min(RowsOfPossession(p))]

\* the possession starts before the zone and some event of it lies beyond it
StartsBehindAndPasses(p) ==
    /\ FirstRowOf(p).x # NaN /\ FirstRowOf(p).x < 40
    /\ \E i \in RowsOfPossession(p) : events[i].x # NaN /\ events[i].x > 80

C12_PreventionRateFormula ==
    (pc = "done" /\ columns = AllColumns /\ OpponentPossessionIds # {}) =>
        LET n == Cardinality(OpponentPossessionIds)
            b == result["bypass_attempts_total"].n
            r == result["bypass_prevention_rate"]
        IN r.kind = "float" /\ r.n * n = (n - b) * r.d

\* C12 witness: two opponent possessions, one of them a bypass: rate 1/2
C12_Witness ==
    /\ pc = "done" /\ columns = AllColumns
    /\ Cardinality(OpponentPossessionIds) = 2
    /\ result["bypass_attempts_total"] = IntVal(1)
    /\ SameVal(result["bypass_prevention_rate"], FloatVal(1, 2))

\* the opponent's Pass events in the zone that the definition calls
\* progressive: length and end location known, length > 10, end x > x + 5
ProgressiveByDefinition ==
    {i \in 1..Len(events) :
        /\ events[i].type_name = "Pass"
        /\ events[i].possession_team_id # team_id
        /\ in_midfield(events[i])
        /\ events[i].pass_length # NaN
        /\ events[i].pass_end_location # NoLoc
        /\ events[i].pass_length > 10
        /\ events[i].pass_end_location[1] > events[i].x + 5}

\* C13: on a table with every column, compute_progressive_passes_allowed_midfield
\* counts exactly the opponent passes in the zone with known length and end
\* location whose length is > 10 and whose end x is > start x + 5.
C13_ProgressiveIff ==
    (pc = "done" /\ columns = AllColumns) =>
        result["progressive_passes_allowed_midfield"] =
            IntVal(Cardinality(ProgressiveByDefinition))

\* ---------------------------------------------------------------------
\* The composite strength index (src/features/composite_features.py), as
\* the aggregator calls it: after the zone-specific module, with the
\* accumulated mapping as other_features
\* ---------------------------------------------------------------------

\* exact fractions n/d with d > 0 stand for the floats of the index
Rat(n, d) == [n |-> n, d |-> d]
RatLeq(a, b) == a.n * b.d <= b.n * a.d
RatMin(a, b) == IF RatLeq(a, b) THEN a ELSE b
RatMax(a, b) == IF RatLeq(a, b) THEN b ELSE a
RatAdd(a, b) == Rat(a.n * b.d + b.n * a.d, a.d * b.d)
RatScale(k, a) == Rat(k * a.n, a.d)

\* (value - min_val) / (max_val - min_val) without the clamp
normalize_feature_unclamped(value, min_val, max_val) ==
    IF max_val = min_val THEN Rat(1, 2)
    ELSE Rat(value.n - min_val * value.d, value.d * (max_val - min_val))

\* composite_features.normalize_feature with both limits given and a value
\* that is a number
normalize_feature(value, min_val, max_val) ==
    IF max_val = min_val THEN Rat(1, 2)
    ELSE LET normalized ==
                 Rat(value.n - min_val * value.d,
                     value.d * (max_val - min_val))
         IN RatMax(Rat(0, 1), RatMin(Rat(1, 1), normalized))

\* a mapping from feature names to numbers is a set of <<name, value>> pairs
dict_get(m, key, default) ==
    IF \E p \in m : p[1] = key
    THEN (CHOOSE p \in m : p[1] = key)[2]
    ELSE default

\* the rate compute_midfield_strength_index and compute_bypass_risk_factors
\* derive from other_features: 1 - bypass_attempts / opponent_possessions,
\* and 1.0 without an opponent possession
composite_bypass_prevention_rate(rows, others) ==
    LET n_opponent_possessions ==
            Cardinality({rows[i].possession :
                i \in {j \in 1..Len(rows) :
                          rows[j].possession_team_id # team_id}})
        bypass_attempts == dict_get(others, "bypass_attempts_total", 0)
    IN IF n_opponent_possessions > 0
       THEN Rat(n_opponent_possessions - bypass_attempts, n_opponent_possessions)
       ELSE Rat(1, 1)

\* twenty times the index: the weights 0.25, 0.25, 0.20, 0.20, 0.10 are
\* 5, 5, 4, 4 and 2 twentieths
compute_midfield_strength_index(rows, others) ==
    LET midfield_interceptions ==
            SelectSeq(rows, LAMBDA r : r.type_name = "Interception"
                                       /\ r.team_id = team_id /\ in_midfield(r))
        opps == Cardinality({rows[i].possession :
                    i \in {j \in 1..Len(rows) :
                              rows[j].possession_team_id # team_id}})
        interception_rate ==
            IF opps > 0 THEN Rat(Len(midfield_interceptions), opps)
            ELSE Rat(0, 1)
        midfield_recoveries ==
            SelectSeq(rows, LAMBDA r : r.type_name = "Ball Recovery"
                                       /\ r.team_id = team_id /\ in_midfield(r))
        match_duration_minutes ==
            IF Len(rows) > 0 THEN Max({rows[i].minute : i \in 1..Len(rows)})
            ELSE 90
        recovery_rate ==
            IF match_duration_minutes > 0
            THEN Rat(Len(midfield_recoveries), match_duration_minutes)
            ELSE Rat(0, 1)
        opponent_midfield_events ==
            SelectSeq(rows, LAMBDA r : r.possession_team_id # team_id
                                       /\ in_midfield(r))
        pressure_events ==
            SelectSeq(opponent_midfield_events, LAMBDA r : r.under_pressure)
        pressure_intensity ==
            IF Len(opponent_midfield_events) > 0
            THEN Rat(100 * Len(pressure_events), Len(opponent_midfield_events))
            ELSE Rat(0, 1)
        bypass_prevention_rate == composite_bypass_prevention_rate(rows, others)
        defensive_events ==
            SelectSeq(rows, LAMBDA r : r.team_id = team_id /\ in_midfield(r)
                                       /\ r.y # NaN)
        ys == {defensive_events[i].y : i \in 1..Len(defensive_events)}
        xs == {defensive_events[i].x : i \in 1..Len(defensive_events)}
        compactness_index ==
            IF Len(defensive_events) > 0 /\ Max(xs) - Min(xs) > 0
            THEN Rat(Max(ys) - Min(ys), Max(xs) - Min(xs))
            ELSE Rat(1, 1)
        norm_interception == normalize_feature(interception_rate, 0, 1)
        norm_recovery == normalize_feature(recovery_rate, 0, 5)
        norm_pressure == normalize_feature(pressure_intensity, 0, 100)
        norm_bypass == bypass_prevention_rate
        norm_compactness ==
            RatAdd(Rat(1, 1),
                   RatScale(0 - 1, normalize_feature(compactness_index, 0, 2)))
    IN RatAdd(RatScale(5, norm_interception),
       RatAdd(RatScale(5, norm_recovery),
       RatAdd(RatScale(4, norm_pressure),
       RatAdd(RatScale(4, norm_bypass),
              RatScale(2, norm_compactness)))))

\* one event row with the columns the index reads
IndexRow(tid, ptid, ty, x, y, poss, minute, up) ==
    [team_id |-> tid, possession_team_id |-> ptid, type_name |-> ty,
     x |-> x, y |-> y, possession |-> poss, minute |-> minute,
     under_pressure |-> up]

IndexRows ==
    {IndexRow(team_id, opponent_id, ty, xy[1], xy[2], 1, minute, FALSE) :
        ty \in {"Interception", "Ball Recovery"},
        xy \in {<<NaN, NaN>>, <<50, NaN>>, <<50, 40>>, <<60, 40>>, <<60, 10>>},
        minute \in {0, 1}}
    \cup
    {IndexRow(opponent_id, opponent_id, "Carry", x, 40, poss, 0, up) :
        x \in {10, 50, 85}, poss \in {1, 3}, up \in BOOLEAN}
    \cup
    {IndexRow(team_id, team_id, "Ball Recovery", 50, 40, 2, 0, FALSE)}

\* compute_features_for_match from the zone-specific module (9th) to the
\* composite module (11th): the zone-specific module adds its count to the
\* mapping or raises, then the composite module gets the mapping
InitIndex ==
    /\ Idle
    /\ pc = "zone_specific"
    /\ events \in SeqsUpTo(IndexRows, MaxRows)
    /\ columns = AllColumns
    /\ result = Rat(0, 1)

IndexUnchanged ==
    UNCHANGED <<events, columns, config, match_idx, module_idx,
                all_match_features, invoked, raised, processed, skipped>>

ZoneSpecificReturns ==
    /\ pc = "zone_specific"
    /\ pc' = "composite_features"
    /\ match_features' =
           match_features \cup
           {<<"bypass_attempts_total",
              compute_bypass_attempts_total(columns, events).n>>}
    /\ UNCHANGED <<result, other_features>>
    /\ IndexUnchanged

ZoneSpecificRaises ==
    /\ pc = "zone_specific"
    /\ pc' = "composite_features"
    /\ UNCHANGED <<result, other_features, match_features>>
    /\ IndexUnchanged

CompositeReturns ==
    /\ pc = "composite_features"
    /\ pc' = "done"
    /\ other_features' = match_features
    /\ result' = compute_midfield_strength_index(events, match_features)
    /\ UNCHANGED match_features
    /\ IndexUnchanged

NextIndex == ZoneSpecificReturns \/ ZoneSpecificRaises \/ CompositeReturns

SpecIndex == InitIndex /\ [][NextIndex]_vars

LabelConfigs ==
    [time_seconds : {10}, max_passes : {0, 1}, final_third_x : {80}]

\* One event of the table label_bypass reads (columns match_id, period,
\* timestamp, possession_team, type, x).  poss_id is the possession segment
\* the event belongs to; the event table has no such column and the code
\* cannot read it.
LabelEvents ==
    {[match_id |-> 1, period |-> 1, timestamp |-> t,
      possession_team |-> IF p = 2 THEN "A" ELSE "B",
      type |-> ty, x |-> x, poss_id |-> p] :
        t \in {0, 5, 20}, ty \in {"Pass", "Carry"}, x \in {NaN, 50, 90},
        p \in {1, 2, 3}}

\* the table is in time order, its possession segments follow each other and
\* a new segment starts where the possession team changes
InTimeOrder(rows) ==
    /\ \A i, j \in 1..Len(rows) :
          i < j => /\ rows[i].timestamp <= rows[j].timestamp
                   /\ rows[i].poss_id <= rows[j].poss_id
    /\ \A i \in 1..(Len(rows) - 1) :
          rows[i].poss_id # rows[i + 1].poss_id
              => rows[i].possession_team # rows[i + 1].possession_team

\* the possession table: one row per segment of the event table, and one
\* segment of a team that has no event
possessions_table(rows) ==
    {<<rows[i].match_id, rows[i].poss_id, rows[i].possession_team>> :
        i \in 1..Len(rows)} \cup {<<1, 0, "C">>}

\* ev[(ev.match_id == mid) & (ev.possession_team == team_id)] on the sorted
\* table
label_seg(rows, mid, team) ==
    SelectSeq(sort_values(rows),
              LAMBDA r : r.match_id = mid /\ r.possession_team = team)

\* the events of the segment pid only
label_seg_of_possession(rows, mid, pid, team) ==
    SelectSeq(sort_values(rows),
              LAMBDA r : r.match_id = mid /\ r.possession_team = team
                         /\ r.poss_id = pid)

\* window["is_pass"].cumsum() at position k of the window
cumsum_is_pass(window, k) ==
    Cardinality({j \in 1..k : window[j].type = "Pass"})

\* the label computed from the events seg
bypass_of(seg, cfg) ==
    IF seg = <<>> THEN 0
    ELSE LET t0 == Min({seg[i].timestamp : i \in 1..Len(seg)})
             window == SelectSeq(seg,
                           LAMBDA r : r.timestamp <= t0 + cfg.time_seconds)
             reached == {k \in 1..Len(window) :
                            /\ window[k].x # NaN
                            /\ window[k].x >= cfg.final_third_x
                            /\ cumsum_is_pass(window, k) <= cfg.max_passes}
         IN IF reached # {} THEN 1 ELSE 0

\* the loop body of label_bypass for one row of the possession table
label_of(rows, cfg, key) ==
    [match_id |-> key[1], poss_id |-> key[2], team_id |-> key[3],
     bypass |-> bypass_of(label_seg(rows, key[1], key[3]), cfg)]

label_bypass(rows, poss, cfg) == {label_of(rows, cfg, key) : key \in poss}

InitLabel ==
    /\ pc = "call"
    /\ events \in {rows \in SeqsUpTo(LabelEvents, MaxRows) : InTimeOrder(rows)}
    /\ columns = {"match_id", "period", "timestamp", "possession_team",
                  "type", "x"}
    /\ config \in LabelConfigs
    /\ result = {}
    /\ match_idx = 0 /\ module_idx = 0
    /\ match_features = {} /\ all_match_features = <<>>
    /\ invoked = {} /\ raised = {} /\ other_features = {}
    /\ processed = {} /\ skipped = {}

LabelBypass ==
    /\ pc = "call"
    /\ pc' = "done"
    /\ result' = label_bypass(events, possessions_table(events), config)
    /\ UNCHANGED <<events, columns>>
    /\ AggUnchanged

NextLabel == LabelBypass

SpecLabel == InitLabel /\ [][NextLabel]_vars

\* the label the definition gives the segment key: some event of that
\* segment reaches the threshold within the time budget counted from the
\* segment's first event, with no more passes so far in the segment than
\* the budget
LabelByDefinition(key) ==
    LET seg == label_seg_of_possession(events, key[1], key[2], key[3])
    IN IF \E k \in 1..Len(seg) :
              /\ seg[k].x # NaN /\ seg[k].x >= config.final_third_x
              /\ seg[k].timestamp <= seg[1].timestamp + config.time_seconds
              /\ cumsum_is_pass(seg, k) <= config.max_passes
       THEN 1 ELSE 0

\* C15: every possession is labelled 1 exactly when some event of that
\* possession reaches the final-third threshold within time_seconds of the
\* possession's first event and within max_passes passes, else 0.
C15_LabelIffReachedWithinBudget ==
    pc = "done" =>
        \A l \in result :
            l.bypass = LabelByDefinition(<<l.match_id, l.poss_id, l.team_id>>)

\* ---------------------------------------------------------------------
\* compute_features_for_match run twice on one event table
\* ---------------------------------------------------------------------

\* the modelled extractors each module calls, without a try of its own
ModuleExtractors(m) ==
    CASE m = "access_control" ->
            {"progressive_passes_allowed_midfield",
             "progressive_pass_distance_allowed",
             "progressive_pass_angle_allowed", "switch_distance_allowed"}
      [] m = "defensive_actions" ->
            {"midfield_interceptions_total",
             "midfield_interceptions_per_possession",
             "midfield_recovery_locations_x"}
      [] m = "spatial_compactness" ->
            {"midfield_central_concentration", "midfield_player_density"}
      [] m = "passing_features" ->
            {"pass_completion_rate_allowed_midfield",
             "passes_before_interception", "pass_sequence_length_allowed",
             "pass_chain_break_rate"}
      [] m = "carrying_features" -> {"carry_distance_allowed"}
      [] m = "recovery_transition" ->
            {"midfield_recovery_location_quality", "midfield_turnover_rate"}
      [] m = "zone_specific" ->
            {"bypass_attempts_total", "bypass_prevention_rate"}
      [] OTHER -> {}

\* a module raises when one of the extractors it calls raises
module_raises(m, cols, rows) ==
    \E f \in ModuleExtractors(m) : Extract(f, cols, rows).kind = "raise"

\* features = compute_func(**kwargs); match_features.update(features), or
\* the except branch that leaves the mapping as it is
module_update(mf, m, cols, rows) ==
    IF module_raises(m, cols, rows) THEN mf
    ELSE {p \in mf : p[1] \notin ModuleExtractors(m)} \cup
         {<<f, Extract(f, cols, rows)>> : f \in ModuleExtractors(m)}

\* the loop over get_feature_modules(), starting after module number i
RECURSIVE run_modules(_, _, _, _)
run_modules(mf, i, cols, rows) ==
    IF i >= Len(get_feature_modules) THEN mf
    ELSE run_modules(module_update(mf, get_feature_modules[i + 1], cols, rows),
                     i + 1, cols, rows)

\* a run that leaves the table sorted by timestamp
events_after_run_sorted(rows) ==
    LET order == sort_by_timestamp(rows, [i \in 1..Len(rows) |-> i])
    IN [k \in 1..Len(rows) |-> rows[order[k]]]

\* the event table after a run: the modules filter, sort and add columns on
\* copies only
events_after_run(rows) == rows

InitTwice ==
    /\ Idle
    /\ pc = "first"
    /\ events \in SeqsUpTo(FeatRows, MaxRows)
    /\ columns = AllColumns
    /\ result = {}

TwiceUnchanged ==
    UNCHANGED <<columns, config, match_idx, module_idx, match_features,
                invoked, raised, other_features, processed, skipped>>

\* one call with match_features=None: the mapping starts empty
FirstRun ==
    /\ pc = "first"
    /\ pc' = "second"
    /\ result' = run_modules({}, 0, columns, events)
    /\ all_match_features' = Append(all_match_features, result')
    /\ events' = events_after_run(events)
    /\ TwiceUnchanged

SecondRun ==
    /\ pc = "second"
    /\ pc' = "done"
    /\ result' = run_modules({}, 0, columns, events)
    /\ all_match_features' = Append(all_match_features, result')
    /\ events' = events_after_run(events)
    /\ TwiceUnchanged

NextTwice == FirstRun \/ SecondRun

SpecTwice == InitTwice /\ [][NextTwice]_vars

SegXYEvents ==
    {[match_id |-> 1, period |-> 1, timestamp |-> t, team |-> tm,
      x |-> xy[1], y |-> xy[2], type_name |-> "Pass"] :
        t \in SegTimes, tm \in SegTeams,
        xy \in {<<NaN, NaN>>, <<10, 30>>, <<0, 0>>, <<50, NaN>>}}

\* the tables build_possessions is called with: every required column, or
\* one of them absent
SegColumns == {needed} \cup {needed \ {c} : c \in needed}

InitSegXY ==
    /\ pc = "call"
    /\ events \in SeqsUpTo(SegXYEvents, MaxEvents)
    /\ columns \in SegColumns
    /\ result = <<>>
    /\ Idle

SpecSegXY == InitSegXY /\ [][NextSeg]_vars

\* the events of a returned segment, in time order
EventsOfSegment(s) ==
    GroupRows(sort_values(events), <<s.match_id, s.poss_id, s.team_name>>)

\* C17: for every returned segment, start_x/start_y are the coordinates of
\* its temporally first event and end_x/end_y those of its temporally last
\* event, each pair taken from one event, missing when that event has no
\* location.
C17_StartEndFromFirstLastEvent ==
    pc = "done" =>
        \A i \in 1..Len(result) :
            LET g == EventsOfSegment(result[i])
            IN /\ result[i].start_x = g[1].x
               /\ result[i].start_y = g[1].y
               /\ result[i].end_x = g[Len(g)].x
               /\ result[i].end_y = g[Len(g)].y

\* no event of the sequence carries a coordinate
Unlocated(g) == \A j \in 1..Len(g) : g[j].x = NaN /\ g[j].y = NaN

\* C18: a segment none of whose events carries a location has missing
\* start_x, start_y, end_x and end_y; in particular none of them is zero.
C18_UnlocatedSegmentHasNullCoordinates ==
    pc = "done" =>
        \A i \in 1..Len(result) :
            Unlocated(EventsOfSegment(result[i])) =>
                /\ result[i].start_x = NaN /\ result[i].start_y = NaN
                /\ result[i].end_x = NaN /\ result[i].end_y = NaN
                /\ 0 \notin {result[i].start_x, result[i].start_y,
                             result[i].end_x, result[i].end_y}

\* a segment of two events without location beside a located segment
C18_Witness ==
    /\ pc = "done"
    /\ \E i, k \in 1..Len(result) :
        /\ Len(EventsOfSegment(result[i])) = 2
        /\ Unlocated(EventsOfSegment(result[i]))
        /\ result[i].start_x = NaN /\ result[i].end_y = NaN
        /\ result[k].start_x = 0 /\ result[k].start_y = 0

\* C19: build_possessions raises exactly when one of the required columns
\* match_id, period, timestamp, possession_team_name, x, y, type_name is
\* absent from the table, and when it raises nothing has been sorted or
\* computed: no segment table exists.
C19_RaisesIffRequiredColumnAbsent ==
    pc # "call" =>
        /\ pc = "raised" <=> ~(needed \subseteq columns)
        /\ pc = "raised" => result = <<>>

\* a non-empty table without the y column was refused
C19_Witness ==
    /\ pc = "raised"
    /\ columns = needed \ {"y"}
    /\ Len(events) = MaxEvents
    /\ result = <<>>

\* ---------------------------------------------------------------------
\* The normalizers: clean_columns (ingest) and clean_events (features)
\* ---------------------------------------------------------------------

\* the values a raw event has under "location": nothing, a value that is
\* not a list, and lists of zero to three numbers
NoLocation == [kind |-> "none", v |-> <<>>]

NotAList == [kind |-> "str", v |-> <<>>]

ListOf(v) == [kind |-> "list", v |-> v]

Locations ==
    {NoLocation, NotAList, ListOf(<<>>), ListOf(<<10>>), ListOf(<<10, 30>>),
     ListOf(<<0, 0>>), ListOf(<<10, 30, 5>>)}

RawEvents ==
    [match_id : {1}, team_id : {team_id, opponent_id}, location : Locations]

\* the raw table has a location column or has none
RawColumns == {{"match_id", "team.id", "location"}, {"match_id", "team.id"}}

\* df.get("location"): the column, or None when the table has none
df_get_location(cols, rows) ==
    IF "location" \in cols THEN [i \in 1..Len(rows) |-> rows[i].location]
    ELSE <<>>

\* lambda v: v[0] if isinstance(v, list) and len(v) > 0 else None
location_x(v) == IF v.kind = "list" /\ Len(v.v) > 0 THEN v.v[1] ELSE NaN

\* lambda v: v[1] if isinstance(v, list) and len(v) > 1 else None
location_y(v) == IF v.kind = "list" /\ Len(v.v) > 1 THEN v.v[2] ELSE NaN

\* out["x"], out["y"]: loc.apply(...) when there is a column, else None
out_x(cols, rows, i) ==
    IF "location" \in cols THEN location_x(df_get_location(cols, rows)[i])
    ELSE NaN

out_y(cols, rows, i) ==
    IF "location" \in cols THEN location_y(df_get_location(cols, rows)[i])
    ELSE NaN

\* one output row per row of df, built column by column on df's index
clean_columns(cols, rows) ==
    [i \in 1..Len(rows) |->
        [match_id |-> rows[i].match_id,
         x |-> out_x(cols, rows, i), y |-> out_y(cols, rows, i)]]

clean_events(cols, rows) ==
    [i \in 1..Len(rows) |->
        [match_id |-> rows[i].match_id, team_id |-> rows[i].team_id,
         x |-> out_x(cols, rows, i), y |-> out_y(cols, rows, i)]]

InitNorm ==
    /\ pc = "call"
    /\ events \in SeqsUpTo(RawEvents, MaxEvents)
    /\ columns \in RawColumns
    /\ result = <<>>
    /\ Idle

CleanColumns ==
    /\ pc = "call"
    /\ pc' = "done"
    /\ result' = clean_columns(columns, events)
    /\ UNCHANGED <<events, columns>>
    /\ AggUnchanged

CleanEvents ==
    /\ pc = "call"
    /\ pc' = "done"
    /\ result' = clean_events(columns, events)
    /\ UNCHANGED <<events, columns>>
    /\ AggUnchanged

NextNorm == CleanColumns \/ CleanEvents

SpecNorm == InitNorm /\ [][NextNorm]_vars

\* the location of input event i as the normalizer sees it
LocationOf(i) ==
    IF "location" \in columns THEN events[i].location ELSE NoLocation

\* C20: the normalizer returns without error one row per input event; a
\* two-element location gives x = its first and y = its second element;
\* an absent location, one that is not a list, or a list of fewer than two
\* elements gives missing x and missing y.
C20_LocationToXY ==
    /\ pc # "raised"
    /\ pc = "done" =>
        /\ Len(result) = Len(events)
        /\ \A i \in 1..Len(events) :
            LET v == LocationOf(i)
            IN /\ (v.kind = "list" /\ Len(v.v) = 2) =>
                    result[i].x = v.v[1] /\ result[i].y = v.v[2]
               /\ (v.kind # "list" \/ Len(v.v) < 2) =>
                    result[i].x = NaN /\ result[i].y = NaN

\* ---------------------------------------------------------------------
\* coalesce_outcome (ingest/load_sb.py and features/main_feature.py, the
\* same text in both)
\* ---------------------------------------------------------------------

\* a cell: nothing, a text, or a value that is not a text (a dict)
NullCell == [kind |-> "null", s |-> NULL]

\* columns of the flattened table: c.endswith(".outcome.name"),
\* c.endswith(".outcome"), and a column that is neither
OutcomeNameColumns == {"pass.outcome.name", "duel.outcome.name"}

OutcomeColumns == {"shot.outcome"}

TableColumns == OutcomeNameColumns \cup OutcomeColumns \cup {"type.name"}

\* the tables: up to MaxColumns distinct columns in any order, with up to
\* MaxOutcomeRows rows
MaxColumns == 3

MaxOutcomeRows == 2

ColumnOrders ==
    {cs \in SeqsUpTo(TableColumns, MaxColumns) :
        \A i, j \in 1..Len(cs) : i # j => cs[i] # cs[j]}

\* a row gives every column nothing or its value; shot.outcome holds a dict
OutcomeRows ==
    {[c \in TableColumns |->
        IF c \in nn
        THEN [kind |-> IF c \in OutcomeColumns THEN "dict" ELSE "str", s |-> c]
        ELSE NullCell] : nn \in SUBSET TableColumns}

\* candidates in the order of the table, without the preference
candidates_table_order(cols) ==
    SelectSeq(cols, LAMBDA c : c \in OutcomeNameColumns \cup OutcomeColumns)

\* [c ... if c.endswith(".outcome.name")] + [c ... if c.endswith(".outcome")]
candidates(cols) ==
    SelectSeq(cols, LAMBDA c : c \in OutcomeNameColumns)
        \o SelectSeq(cols, LAMBDA c : c \in OutcomeColumns)

\* lambda v: v if (pd.isna(v) or isinstance(v, str)) else str(v)
to_text(v) == IF v.kind = "dict" THEN [kind |-> "str", s |-> v.s] ELSE v

\* sub.bfill(axis=1).iloc[:, 0] for one row: the first cell that is not null
bfill_first(row, cands) ==
    LET nn == {j \in 1..Len(cands) : to_text(row[cands[j]]).kind # "null"}
    IN IF nn = {} THEN NullCell ELSE to_text(row[cands[Min(nn)]])

coalesce_outcome(cols, rows) ==
    IF candidates(cols) = <<>> THEN [i \in 1..Len(rows) |-> NullCell]
    ELSE [i \in 1..Len(rows) |-> bfill_first(rows[i], candidates(cols))]

CoalesceOutcome ==
    /\ pc = "call"
    /\ pc' = "done"
    /\ result' = coalesce_outcome(columns, events)
    /\ UNCHANGED <<events, columns>>
    /\ AggUnchanged

InitOutcome ==
    /\ pc = "call"
    /\ events \in SeqsUpTo(OutcomeRows, MaxOutcomeRows)
    /\ columns \in ColumnOrders
    /\ result = <<>>
    /\ Idle

NextOutcome == CoalesceOutcome

SpecOutcome == InitOutcome /\ [][NextOutcome]_vars

\* positions of the table's outcome columns that are not null in row i
NonNullOutcomeAt(i) ==
    {j \in 1..Len(columns) :
        /\ columns[j] \in OutcomeNameColumns \cup OutcomeColumns
        /\ events[i][columns[j]].kind # "null"}

\* C21 as stated: outcome_name of a row is its first non-null value among
\* the .outcome.name and .outcome columns taken in the order the columns
\* occur in the table, and is null exactly when all of them are null.
C21_FirstNonNullInTableOrder ==
    pc = "done" =>
        /\ Len(result) = Len(events)
        /\ \A i \in 1..Len(events) :
            IF NonNullOutcomeAt(i) = {} THEN result[i] = NullCell
            ELSE result[i] =
                    to_text(events[i][columns[Min(NonNullOutcomeAt(i))]])

\* column j is scanned before column k: .outcome.name columns before
\* .outcome columns, and table order within each kind
ScannedBefore(j, k) ==
    \/ columns[j] \in OutcomeNameColumns /\ columns[k] \in OutcomeColumns
    \/ /\ (columns[j] \in OutcomeNameColumns) = (columns[k] \in OutcomeNameColumns)
       /\ j < k

\* C21 amended: outcome_name of a row is its first non-null value, as text,
\* among the .outcome.name columns in table order followed by the .outcome
\* columns in table order, and is null exactly when all of them are null.
C21_FirstNonNullNameColumnsFirst ==
    pc = "done" =>
        /\ Len(result) = Len(events)
        /\ \A i \in 1..Len(events) :
            /\ result[i] = NullCell <=> NonNullOutcomeAt(i) = {}
            /\ \A j \in NonNullOutcomeAt(i) :
                (\A k \in NonNullOutcomeAt(i) \ {j} : ScannedBefore(j, k)) =>
                    result[i] = [kind |-> "str", s |-> columns[j]]

\* a row with a dict under shot.outcome and a text under pass.outcome.name,
\* the shot column standing first in the table
C21_Witness ==
    /\ pc = "done"
    /\ columns = <<"shot.outcome", "type.name", "pass.outcome.name">>
    /\ Len(events) = 2
    /\ NonNullOutcomeAt(1) = {1, 3}
    /\ result[1] = [kind |-> "str", s |-> "pass.outcome.name"]
    /\ NonNullOutcomeAt(2) = {1}
    /\ result[2] = [kind |-> "str", s |-> "shot.outcome"]

InterceptionsIn(p) ==
    {i \in RowsOfPossession(p) :
        events[i].type_name = "Interception" /\ events[i].team_id = team_id}

PassesIn(p) == {i \in RowsOfPossession(p) : events[i].type_name = "Pass"}

PassesBeforeByClock(p) ==
    LET t0 == Min({events[i].timestamp : i \in InterceptionsIn(p)})
    IN Cardinality({i \in PassesIn(p) : events[i].timestamp < t0})

\* C23: on a table with every column, passes_before_interception is the
\* mean, over the opponent possessions with an interception of the
\* evaluated team, of the number of the possession's passes that precede
\* the first such interception on the match clock, and pass_chain_break_rate
\* counts a possession as broken when that number is below its number of
\* passes; neither depends on the row order of the table.
C23_PassesBeforeInterceptionByClock ==
    (pc = "done" /\ columns = AllColumns) =>
        LET Q == Sorted({p \in OpponentPossessionIds : InterceptionsIn(p) # {}})
            broken == {p \in OpponentPossessionIds :
                          /\ InterceptionsIn(p) # {} /\ PassesIn(p) # {}
                          /\ PassesBeforeByClock(p) < Cardinality(PassesIn(p))}
        IN /\ Q # <<>> =>
                SameVal(result["passes_before_interception"],
                        np_mean([k \in 1..Len(Q) |-> PassesBeforeByClock(Q[k])]))
           /\ OpponentPossessionIds # {} =>
                SameVal(result["pass_chain_break_rate"],
                        FloatVal(Cardinality(broken),
                                 Cardinality(OpponentPossessionIds)))

\* ---------------------------------------------------------------------
\* carrying_features: carries entering and traversing the zone
\* ---------------------------------------------------------------------

compute_carries_entering_midfield(cols, rows) ==
    LET opponent_carries_midfield == _get_opponent_carries_midfield(cols, rows)
        carries_with_end ==
            _get_carries_with_end_location(cols, opponent_carries_midfield)
        entering_midfield ==
            SelectSeq(carries_with_end,
                      LAMBDA r : r.x < 40 /\ r.carry_end_location[1] >= 40)
    IN IF x_lookup_raises(cols) THEN RaiseVal
       ELSE IF carry_distance_raises(cols, opponent_carries_midfield)
            THEN RaiseVal
       ELSE IF Len(carries_with_end) > 0
            THEN IntVal(Len(entering_midfield))
            ELSE IntVal(0)

compute_carries_through_midfield(cols, rows) ==
    LET opponent_carries_midfield == _get_opponent_carries_midfield(cols, rows)
        carries_with_end ==
            _get_carries_with_end_location(cols, opponent_carries_midfield)
        through_midfield ==
            SelectSeq(carries_with_end,
                      LAMBDA r : r.x < 40 /\ r.carry_end_location[1] > 80)
    IN IF x_lookup_raises(cols) THEN RaiseVal
       ELSE IF carry_distance_raises(cols, opponent_carries_midfield)
            THEN RaiseVal
       ELSE IF Len(carries_with_end) > 0
            THEN IntVal(Len(through_midfield))
            ELSE IntVal(0)

\* carries of the opponent starting before, in and beyond the zone or
\* without location, with every kind of end location, and a carry of the
\* evaluated team's own possession
CarryRows ==
    {Row(opponent_id, opponent_id, "Carry", x, 40, 1, 0,
         NaN, NoLoc, FALSE, NaN, e, NULL) :
        x \in {NaN, 10, 50, 85},
        e \in {NoLoc, <<30, 40>>, <<50, 40>>, <<85, 40>>, <<85>>}}
    \cup
    {Row(team_id, team_id, "Carry", 10, 40, 2, 0,
         NaN, NoLoc, FALSE, NaN, <<85, 40>>, NULL)}

CarryCounts ==
    /\ pc = "call"
    /\ pc' = "done"
    /\ result' =
        [carries_entering_midfield |->
            compute_carries_entering_midfield(columns, events),
         carries_through_midfield |->
            compute_carries_through_midfield(columns, events)]
    /\ UNCHANGED <<events, columns>>
    /\ AggUnchanged

InitCarry ==
    /\ pc = "call"
    /\ events \in SeqsUpTo(CarryRows, MaxRows)
    /\ columns \in {AllColumns, AllColumns \ {"carry.end_location"}}
    /\ result = <<>>
    /\ Idle

NextCarry == CarryCounts

SpecCarry == InitCarry /\ [][NextCarry]_vars

\* the opponent's carries that start at x < 40 and have a two-element end
\* location whose x satisfies the test
OpponentCarriesFromBehind(beyond) ==
    {i \in 1..Len(events) :
        /\ events[i].type_name = "Carry"
        /\ events[i].possession_team_id # team_id
        /\ events[i].x # NaN /\ events[i].x < 40
        /\ Len(events[i].carry_end_location) = 2
        /\ IF beyond THEN events[i].carry_end_location[1] > 80
           ELSE events[i].carry_end_location[1] >= 40}

\* C24: on a table with every column, compute_carries_through_midfield is
\* the number of opponent carries that start at x < 40 and end at x > 80,
\* and compute_carries_entering_midfield the number of opponent carries that
\* start at x < 40 and end at x >= 40.
C24_CarriesThroughAndEntering ==
    (pc = "done" /\ columns = AllColumns) =>
        /\ result.carries_through_midfield =
                IntVal(Cardinality(OpponentCarriesFromBehind(TRUE)))
        /\ result.carries_entering_midfield =
                IntVal(Cardinality(OpponentCarriesFromBehind(FALSE)))

\* ---------------------------------------------------------------------
\* spatial_compactness: coverage gaps on a 3x3 grid
\* ---------------------------------------------------------------------

\* x_bins = [midfield_x_min, 53.33, 66.67, midfield_x_max] and
\* y_bins = [0, 26.67, 53.33, 80], in hundredths
x_bins == <<100 * midfield_x_min, 5333, 6667, 100 * midfield_x_max>>

y_bins == <<0, 2667, 5333, 8000>>

\* np.digitize(v, bins): the number of bin edges <= v; a missing value sorts
\* after every edge
np_digitize(v, bins) ==
    IF v = NaN THEN Len(bins)
    ELSE Cardinality({i \in 1..Len(bins) : bins[i] <= 100 * v})

\* the grid after the loop over the defensive events, cell (x_idx, y_idx) at
\* position 3 * x_idx + y_idx + 1; an event whose x_idx or y_idx is outside
\* 0..2 adds to no cell
coverage_grid(defensive_events) ==
    [c \in 1..9 |->
        Len(SelectSeq(defensive_events, LAMBDA action :
            LET x_idx == np_digitize(action.x, x_bins) - 1
                y_idx == np_digitize(action.y, y_bins) - 1
            IN /\ 0 <= x_idx /\ x_idx < 3 /\ 0 <= y_idx /\ y_idx < 3
               /\ 3 * x_idx + y_idx + 1 = c))]

\* len(np.where(coverage_grid < threshold)[0]) with threshold = 0.05 * mean
\* when the mean is positive, else 0: cell < total / 9 / 20
compute_midfield_coverage_gaps_count(cols, rows) ==
    LET defensive_events == _get_defensive_events(rows)
        grid == coverage_grid(defensive_events)
    IN IF x_lookup_raises(cols) THEN RaiseVal
       ELSE IF Len(defensive_events) > 0 /\ "y" \in cols
            THEN IntVal(Cardinality({c \in 1..9 :
                     SumSeq(grid) > 0 /\ 180 * grid[c] < SumSeq(grid)}))
            ELSE IntVal(0)

\* actions of the evaluated team on the edges and inside the zone, before
\* it, with and without y; an action of the opponent; a pass
GridRows ==
    {Row(team_id, opponent_id, "Interception", x, y, 1, 0,
         NaN, NoLoc, FALSE, NaN, NoLoc, NULL) :
        x \in {10, 40, 60, 80}, y \in {NaN, 0, 40, 80}}
    \cup
    {Row(tid, opponent_id, ty, 60, 40, 1, 0,
         NaN, NoLoc, FALSE, NaN, NoLoc, NULL) :
        tid \in {team_id, opponent_id}, ty \in {"Pass", "Clearance"}}

CoverageGaps ==
    /\ pc = "call"
    /\ pc' = "done"
    /\ result' = compute_midfield_coverage_gaps_count(columns, events)
    /\ UNCHANGED <<events, columns>>
    /\ AggUnchanged

InitGrid ==
    /\ pc = "call"
    /\ events \in SeqsUpTo(GridRows, MaxRows)
    /\ columns \in {AllColumns, AllColumns \ {"x"}, AllColumns \ {"y"}}
    /\ result = <<>>
    /\ Idle

NextGrid == CoverageGaps

SpecGrid == InitGrid /\ [][NextGrid]_vars

\* the evaluated team's defensive actions with x in the zone and y in [0, 80]
InZoneActions ==
    SelectSeq(_get_defensive_events(events),
              LAMBDA r : r.y # NaN /\ r.y >= 0 /\ r.y <= 80)

\* C25: on a table with every column, the nine cell counts of the grid sum
\* to the number of in-zone defensive actions of the evaluated team (x in
\* the zone, y in [0, 80]), and compute_midfield_coverage_gaps_count is the
\* number of cells whose count is strictly below 5% of the mean cell count.
C25_GridCoversZoneAndCountsGaps ==
    (pc = "done" /\ columns = AllColumns) =>
        LET grid == coverage_grid(_get_defensive_events(events))
        IN /\ SumSeq(grid) = Len(InZoneActions)
           /\ result = IntVal(Cardinality({c \in 1..9 :
                            180 * grid[c] < Len(InZoneActions)}))

\* the event table without the events of possession q
WithoutPossession(q) == SelectSeq(events, LAMBDA r : r.poss_id # q)

\* C26: the label of a possession depends only on that possession's events:
\* on a second table that agrees on the events of possession p and lacks the
\* events of another possession q of the same team in the same match,
\* label_bypass gives p the same label.
C26_LabelIndependentOfOtherPossessions ==
    pc = "done" =>
        \A l \in result :
            \A i \in 1..Len(events) :
                LET q == events[i].poss_id
                IN (/\ q # l.poss_id
                    /\ events[i].match_id = l.match_id
                    /\ events[i].possession_team = l.team_id
                    /\ InTimeOrder(WithoutPossession(q))) =>
                        l.bypass =
                            label_of(WithoutPossession(q), config,
                                     <<l.match_id, l.poss_id, l.team_id>>).bypass

\* C27: when the zone-specific module has emitted its features, the
\* bypass-prevention rate the composite functions derive from
\* other_features['bypass_attempts_total'] equals the bypass_prevention_rate
\* of the zone-specific module for the same table, also on a table without
\* an opponent possession.
C27_CompositeRateEqualsZoneRate ==
    (pc = "done" /\ \E p \in other_features : p[1] = "bypass_attempts_total") =>
        LET zone == compute_bypass_prevention_rate(columns, events)
            composite == composite_bypass_prevention_rate(events, other_features)
        IN /\ zone.kind = "float"
           /\ composite.n * zone.d = zone.n * composite.d

\* the table with rows i and j exchanged
Exchanged(i, j) ==
    [k \in 1..Len(events) |->
        IF k = i THEN events[j] ELSE IF k = j THEN events[i] ELSE events[k]]

\* the match clock orders the events of every possession
ClockOrdersPossessions ==
    \A i, j \in 1..Len(events) :
        (i # j /\ events[i].possession = events[j].possession) =>
            events[i].timestamp # events[j].timestamp

\* C28: on a table with every column in which the clock orders the events of
\* each possession, compute_bypass_attempts_total and
\* compute_midfield_turnover_rate return the same value for the table with
\* any two rows exchanged.
C28_SameValueInAnyRowOrder ==
    (pc = "done" /\ columns = AllColumns /\ ClockOrdersPossessions) =>
        \A i, j \in 1..Len(events) :
            /\ SameVal(result["bypass_attempts_total"],
                       compute_bypass_attempts_total(columns, Exchanged(i, j)))
            /\ SameVal(result["midfield_turnover_rate"],
                       compute_midfield_turnover_rate(columns, Exchanged(i, j)))

\* ---------------------------------------------------------------------
\* access_control: progressive passes by lane
\* ---------------------------------------------------------------------

\* the loop of the two lane counters: the passes that pass the notna chain
\* (with pd.notna(pass_y)) and are progressive
progressive_with_y(opponent_passes) ==
    SelectSeq(opponent_passes, LAMBDA r : is_progressive(r) /\ r.y # NaN)

compute_progressive_passes_central_lane(cols, rows) ==
    LET opponent_passes == _get_opponent_passes_midfield(cols, rows)
    IN IF x_lookup_raises(cols) THEN RaiseVal
       ELSE IF "pass.length" \notin cols \/ "pass.end_location" \notin cols
               \/ "y" \notin cols
            THEN IntVal(0)
       ELSE IF \E i \in 1..Len(opponent_passes) :
                  notna_chain_raises(opponent_passes[i])
            THEN RaiseVal
       ELSE IntVal(Len(SelectSeq(progressive_with_y(opponent_passes),
                                 LAMBDA r : 35 <= r.y /\ r.y <= 45)))

compute_progressive_passes_wide(cols, rows) ==
    LET opponent_passes == _get_opponent_passes_midfield(cols, rows)
    IN IF x_lookup_raises(cols) THEN RaiseVal
       ELSE IF "pass.length" \notin cols \/ "pass.end_location" \notin cols
               \/ "y" \notin cols
            THEN IntVal(0)
       ELSE IF \E i \in 1..Len(opponent_passes) :
                  notna_chain_raises(opponent_passes[i])
            THEN RaiseVal
       ELSE IntVal(Len(SelectSeq(progressive_with_y(opponent_passes),
                                 LAMBDA r : r.y < 35 \/ r.y > 45)))

\* opponent passes from x = 50 in every lane and without y, long and short,
\* with a one-element and a two-element end location
LaneRows ==
    {Row(opponent_id, opponent_id, "Pass", 50, y, 1, 0,
         len, e, FALSE, NaN, NoLoc, "Complete") :
        y \in {NaN, 10, 35, 45, 50}, len \in {12, 5},
        e \in {<<58>>, <<58, 40>>}}

LaneCounts ==
    /\ pc = "call"
    /\ pc' = "done"
    /\ result' =
        [progressive_passes_allowed_midfield |->
            compute_progressive_passes_allowed_midfield(columns, events),
         progressive_passes_central_lane |->
            compute_progressive_passes_central_lane(columns, events),
         progressive_passes_wide |->
            compute_progressive_passes_wide(columns, events)]
    /\ UNCHANGED <<events, columns>>
    /\ AggUnchanged

InitLane ==
    /\ pc = "call"
    /\ events \in SeqsUpTo(LaneRows, MaxRows)
    /\ columns \in {AllColumns, AllColumns \ {"y"}, AllColumns \ {"pass.length"}}
    /\ result = <<>>
    /\ Idle

NextLane == LaneCounts

SpecLane == InitLane /\ [][NextLane]_vars

\* C29: whenever the three counters return, progressive_passes_central_lane
\* + progressive_passes_wide = progressive_passes_allowed_midfield.
C29_LanesPartitionProgressivePasses ==
    (/\ pc = "done"
     /\ result.progressive_passes_allowed_midfield.kind = "int"
     /\ result.progressive_passes_central_lane.kind = "int"
     /\ result.progressive_passes_wide.kind = "int") =>
        result.progressive_passes_central_lane.n
            + result.progressive_passes_wide.n
        = result.progressive_passes_allowed_midfield.n

\* C30: every returned segment has start_time <= end_time, and of two
\* segments of the same match and period the one with the smaller poss_id
\* ends no later than the other starts.
C30_SegmentsInClockOrder ==
    pc = "done" =>
        /\ \A i \in 1..Len(result) : result[i].start_time <= result[i].end_time
        /\ \A i, k \in 1..Len(result) :
            (/\ result[i].match_id = result[k].match_id
             /\ EventsOfSegment(result[i])[1].period
                    = EventsOfSegment(result[k])[1].period
             /\ result[i].poss_id < result[k].poss_id) =>
                result[i].end_time <= result[k].start_time

\* a table given out of clock order yields two segments of one match and
\* period, the earlier one ending before the later one starts
C30_Witness ==
    /\ pc = "done"
    /\ Len(events) = 3
    /\ events[1].timestamp > events[2].timestamp
    /\ \E i, k \in 1..Len(result) :
        /\ result[i].match_id = result[k].match_id
        /\ EventsOfSegment(result[i])[1].period
               = EventsOfSegment(result[k])[1].period
        /\ result[i].poss_id < result[k].poss_id
        /\ result[i].end_time < result[k].start_time

====
